---- MODULE Spec2Model ----
(***************************************************************************)
(* Verification model of the MBS relationship / constraint extractor       *)
(* (src/src/mbs_clarity/relationship_extraction.py).                       *)
(*                                                                         *)
(* Texts are TLA+ strings, handled character by character with Len and     *)
(* SubSeq (positions are 1-based here, 0-based in the Python source).      *)
(* TLA+ strings are ASCII, so four non-ASCII characters of the source are  *)
(* written with stand-ins that occur nowhere else in the inputs:           *)
(*     "~"  U+2013 EN DASH, as in the test text "45-60 minutes"            *)
(*     "@"  U+00E2, "$"  U+20AC, "^"  U+201C : the three characters the    *)
(*          source of DURATION_RANGE_MINMAX holds where an en dash was     *)
(*          meant (line 68)                                                *)
(* The control characters U+000B and U+001C to U+001F, which Python counts *)
(* as whitespace, stand as themselves in the strings of IsSpace and of     *)
(* IntSpaces; the whitespace beyond ASCII (U+0085, U+00A0, ...) cannot be  *)
(* written and occurs in no input.                                         *)
(* None (a missing description or derived_fee, a null target) is the       *)
(* value None below, which is no text of the input alphabet.               *)
(***************************************************************************)
EXTENDS Integers, Sequences, FiniteSets, TLC

VARIABLES
    args,           \* arguments of the call: item_num (a text), description
                    \* and derived_fee (a text or None)
    relations,      \* list returned by extract_relations, NotCalled before
    constraints,    \* list returned by extract_constraints, NotCalled before
    library,        \* the module-level pattern lists the extractors read
    history,        \* the calls that returned, each with what it returned
    threads,        \* the call each thread of the process is in, if any
    pc,             \* the statement of the loader's main() that runs next
    main,           \* the local variables of main() in the current load run
    store,          \* the tables of the database
    log,            \* the calls made to the extractors and to the database
    api             \* the last request to GET /api/items and its answer

\* the state of the loader (src/src/mbs_clarity/_loader.py, src/src/db.py)
loader == <<pc, main, store, log>>

\* the calls of the extractors, returned and under way
calls == <<history, threads>>

vars == <<args, relations, constraints, library, calls, loader, api>>

None == "<None>"
NotCalled == "<not called>"

\* Python values that are no strings, as a caller may pass them for a
\* description or a derived fee: None, 0, False, [], and the truthy 5, True,
\* [36]; each is a value that is no text of the input alphabet
NonStrings == {None, "<0>", "<False>", "<[]>", "<5>", "<True>", "<[36]>"}

\* bool(value) is False: the values that `or` and `if` take for absent
Falsy == {None, "", "<0>", "<False>", "<[]>"}

\* the exception re raises when it is given a value that is no string
TypeError == "<TypeError: expected string or bytes-like object>"

(***************************************************************************)
(* Characters and the classes \d, \w, \s, \b of Python's re module.        *)
(***************************************************************************)
Ch(s, i) == IF i >= 1 /\ i <= Len(s) THEN SubSeq(s, i, i) ELSE ""

Digits == {"0", "1", "2", "3", "4", "5", "6", "7", "8", "9"}

LowerLetters == {"a", "b", "c", "d", "e", "f", "g", "h", "i", "j", "k", "l",
                 "m", "n", "o", "p", "q", "r", "s", "t", "u", "v", "w", "x",
                 "y", "z"}

UpperLetters == {"A", "B", "C", "D", "E", "F", "G", "H", "I", "J", "K", "L",
                 "M", "N", "O", "P", "Q", "R", "S", "T", "U", "V", "W", "X",
                 "Y", "Z"}

IsDigit(c) == c \in Digits

\* \w : letters, digits, underscore ("@" stands for the letter U+00E2)
IsWord(c) == c \in Digits \cup LowerLetters \cup UpperLetters \cup {"_", "@"}

\* \s of a str pattern, and the characters str.strip() removes: space, \t,
\* \n, \r, \f, the vertical tab U+000B and the separators U+001C to U+001F
IsSpace(c) ==
    c \in {" ", "\t", "\n", "\r", "\f", "", "", "", "", ""}

\* \b at the gap before position i (i in 1..Len(s)+1)
WordBoundary(s, i) == IsWord(Ch(s, i - 1)) # IsWord(Ch(s, i))

LowerChar(c) ==
    CASE c = "A" -> "a" [] c = "B" -> "b" [] c = "C" -> "c" [] c = "D" -> "d"
      [] c = "E" -> "e" [] c = "F" -> "f" [] c = "G" -> "g" [] c = "H" -> "h"
      [] c = "I" -> "i" [] c = "J" -> "j" [] c = "K" -> "k" [] c = "L" -> "l"
      [] c = "M" -> "m" [] c = "N" -> "n" [] c = "O" -> "o" [] c = "P" -> "p"
      [] c = "Q" -> "q" [] c = "R" -> "r" [] c = "S" -> "s" [] c = "T" -> "t"
      [] c = "U" -> "u" [] c = "V" -> "v" [] c = "W" -> "w" [] c = "X" -> "x"
      [] c = "Y" -> "y" [] c = "Z" -> "z" [] OTHER -> c

RECURSIVE LowerRange(_, _, _)
\* the characters a..b of s, each lower-cased
LowerRange(s, a, b) ==
    IF a > b THEN ""
    ELSE IF a = b THEN LowerChar(Ch(s, a))
    ELSE LET mid == (a + b) \div 2
         IN  LowerRange(s, a, mid) \o LowerRange(s, mid + 1, b)

\* str.lower(), and the case folding of re.IGNORECASE
Lower(s) == IF \E i \in 1..Len(s) : Ch(s, i) \in UpperLetters
            THEN LowerRange(s, 1, Len(s)) ELSE s

\* the literal lit stands at position i of s (s already lower-cased)
LitAt(s, i, lit) ==
    /\ i >= 1
    /\ i + Len(lit) - 1 <= Len(s)
    /\ SubSeq(s, i, i + Len(lit) - 1) = lit

RECURSIVE SkipSpaces(_, _)
\* first position at or after i that holds no whitespace (greedy \s*)
SkipSpaces(s, i) == IF IsSpace(Ch(s, i)) THEN SkipSpaces(s, i + 1) ELSE i

\* list(dict.fromkeys(xs)): the first occurrence of every element, in order
\* the list as it was built, repetitions kept
Undeduplicated(xs) == xs

RECURSIVE DedupFrom(_, _, _)
DedupFrom(xs, i, acc) ==
    IF i > Len(xs) THEN acc
    ELSE DedupFrom(xs, i + 1,
                   IF \E j \in 1..Len(acc) : acc[j] = xs[i]
                   THEN acc ELSE Append(acc, xs[i]))

Dedup(xs) == DedupFrom(xs, 1, <<>>)

\* a text prepared for matching: as written, lower-cased, and for every
\* character of the lower-cased text the positions where it stands
Prepared(text) ==
    LET low == Lower(text)
    IN  [text |-> text, low |-> low,
         at |-> [c \in {Ch(low, i) : i \in 1..Len(low)} |->
                    {i \in 1..Len(low) : Ch(low, i) = c}]]

PositionsOf(t, c) == IF c \in DOMAIN t.at THEN t.at[c] ELSE {}

(***************************************************************************)
(* ITEM_NUMBER = \b\d{1,5}\b                                               *)
(***************************************************************************)
MaxItemDigits == 5

\* length of the match of ITEM_NUMBER that starts at position i, 0 if none:
\* \d{1,5} is greedy and gives digits back until the closing \b holds
ITEM_NUMBER(s, i) ==
    IF ~(IsDigit(Ch(s, i)) /\ WordBoundary(s, i)) THEN 0
    ELSE LET ks == {k \in 1..MaxItemDigits :
                       /\ \A j \in 0..(k - 1) : IsDigit(Ch(s, i + j))
                       /\ WordBoundary(s, i + k)}
         IN  IF ks = {} THEN 0 ELSE CHOOSE k \in ks : \A k2 \in ks : k2 <= k

RECURSIVE Scan(_, _, _)
\* The scan of finditer / findall: starts holds the positions where the
\* pattern matches, After(p) is the position next after the match at p.
\* The leftmost match at or after i is taken, the scan resumes after it.
Scan(starts, After(_), i) ==
    LET ahead == {p \in starts : p >= i}
    IN  IF ahead = {} THEN <<>>
        ELSE LET p == CHOOSE q \in ahead : \A r \in ahead : q <= r
             IN  <<p>> \o Scan(starts, After, After(p))

\* re.findall(ITEM_NUMBER, s)
FindItemNumbers(s) ==
    LET starts == {i \in 1..Len(s) : ITEM_NUMBER(s, i) > 0}
        After(p) == p + ITEM_NUMBER(s, p)
        found == Scan(starts, After, 1)
    IN  [n \in 1..Len(found) |->
            SubSeq(s, found[n], found[n] + ITEM_NUMBER(s, found[n]) - 1)]

(***************************************************************************)
(* The pattern library: module-level lists of relationship_extraction.py.  *)
(* A phrase is a regular expression without classes or repetition; it is   *)
(* kept as its source text (which is what a relation carries as            *)
(* source_phrase) with the literal texts it matches, in the order the      *)
(* regex engine tries them.                                                *)
(***************************************************************************)
Phrase(src) == [pattern |-> src, alts |-> <<src>>]

EXCLUDE_PHRASES == <<
    Phrase("other than a service to which item"),
    Phrase("not in association with item"),
    Phrase("not claimable with item"),
    Phrase("not being a service to which item") >>

GENERIC_EXCLUDE_PHRASES == <<
    Phrase("other than a service to which another item in the table applies") >>

SAME_DAY_EXCLUDE_PHRASES == <<
    Phrase("not on the same day as item"),
    Phrase("must not be performed on the same day as item") >>

ALLOW_SAME_DAY_PHRASES == <<
    Phrase("may be claimed on the same day as item"),
    Phrase("can be performed on the same day as item") >>

PREREQ_PHRASES == <<
    Phrase("after the initial attendance"),
    Phrase("following referral"),
    [pattern |-> "requires (?:a )?service to which item",
     alts |-> <<"requires a service to which item",
                "requires service to which item">>] >>

\* mbs_models.py
RelationType ==
    [EXCLUDES |-> "excludes",
     SAME_DAY_EXCLUDES |-> "same_day_excludes",
     ALLOWS_SAME_DAY |-> "allows_same_day",
     PREREQUISITE |-> "prerequisite",
     DERIVED_FEE_REF |-> "derived_fee_ref",
     GENERIC_EXCLUDES |-> "generic_excludes"]

ConstraintType ==
    [ONCE_PER_LIFETIME |-> "once_per_lifetime",
     MAX_PER_12_MONTHS |-> "max_per_12_months",
     MAX_PER_WINDOW |-> "max_per_window",
     COOLDOWN_MONTHS |-> "cooldown_months",
     COOLDOWN_DAYS |-> "cooldown_days",
     COOLDOWN_WEEKS |-> "cooldown_weeks",
     COOLDOWN_YEARS |-> "cooldown_years",
     SAME_DAY_ONLY |-> "same_day_only",
     SAME_OCCASION |-> "same_occasion",
     LOCATION |-> "location",
     DURATION_MIN_MINUTES |-> "duration_min_minutes",
     DURATION_MAX_MINUTES |-> "duration_max_minutes",
     PROVIDER |-> "provider",
     AGE_MIN_YEARS |-> "age_min_years",
     AGE_MAX_YEARS |-> "age_max_years",
     TELEHEALTH |-> "telehealth",
     REQUIREMENT |-> "requirement",
     REQUIRES_REFERRAL |-> "requires_referral",
     INITIAL_ATTENDANCE |-> "initial_attendance",
     SUBSEQUENT_ATTENDANCE |-> "subsequent_attendance",
     SINGLE_COURSE |-> "single_course_of_treatment"]

(***************************************************************************)
(* re.finditer(phrase, text, re.IGNORECASE)                                *)
(***************************************************************************)
\* length of the match of phrase at position i of the lower-cased text, or 0
PhraseAt(low, i, phrase) ==
    LET hits == {a \in 1..Len(phrase.alts) : LitAt(low, i, phrase.alts[a])}
    IN  IF hits = {} THEN 0
        ELSE Len(phrase.alts[CHOOSE a \in hits : \A b \in hits : a <= b])

\* the 0-based m.start() of every match, left to right, non-overlapping;
\* a match begins with the first character of one of the literals
PhraseStarts(t, phrase) ==
    LET low == t.low
        firsts == {Ch(phrase.alts[a], 1) : a \in 1..Len(phrase.alts)}
        starts == {i \in UNION {PositionsOf(t, c) : c \in firsts} :
                      PhraseAt(low, i, phrase) > 0}
        After(p) == p + PhraseAt(low, p, phrase)
        found == Scan(starts, After, 1)
    IN  [n \in 1..Len(found) |-> found[n] - 1]

\* re.search(phrase, text, re.IGNORECASE) is not None
PhraseFound(t, phrase) == PhraseStarts(t, phrase) # <<>>

WINDOW == 120

Max(a, b) == IF a >= b THEN a ELSE b
Min(a, b) == IF a <= b THEN a ELSE b

\* text[start:end] of Python, start and end 0-based
Slice(text, start, end) == SubSeq(text, start + 1, end)

\* the numbers of the WINDOW characters after the anchor only
ItemNumbersAfter(text, anchor_index) ==
    LET start == anchor_index
        end == Min(Len(text), anchor_index + WINDOW)
        snippet == Slice(text, start, end)
    IN  FindItemNumbers(snippet)

_extract_item_numbers_around(text, anchor_index) ==
    LET start == Max(0, anchor_index - WINDOW)
        end == Min(Len(text), anchor_index + WINDOW)
        snippet == Slice(text, start, end)
    IN  FindItemNumbers(snippet)

\* the first number of the segment only
FirstOfList(segment) == SubSeq(FindItemNumbers(segment), 1, 1)

_expand_item_list(segment) == Dedup(FindItemNumbers(segment))

\* [f(xs[1]), ..., f(xs[n])] flattened: the order of nested for loops
RECURSIVE FlatMap(_, _, _)
FlatMap(f(_), xs, i) ==
    IF i > Len(xs) THEN <<>> ELSE f(xs[i]) \o FlatMap(f, xs, i + 1)

\* every target made a relation, the source item's own number included
EmitAll(item_num, type, targets, source_phrase) ==
    [k \in 1..Len(targets) |-> <<item_num, type, targets[k], source_phrase>>]

\* the targets of one list that differ from the source item, made relations
Emit(item_num, type, targets, source_phrase) ==
    LET keep == SelectSeq(targets, LAMBDA t : t # item_num)
    IN  [k \in 1..Len(keep) |-> <<item_num, type, keep[k], source_phrase>>]

\* one windowed loop of extract_relations (lines 287-292, 302-329)
WindowedRelations(item_num, t, phrases, type) ==
    LET text == t.text
        OfMatch(phrase, a) ==
            Emit(item_num, type, _extract_item_numbers_around(text, a),
                 phrase.pattern)
        OfPhrase(phrase) ==
            LET starts == PhraseStarts(t, phrase)
                One(a) == OfMatch(phrase, a)
            IN  FlatMap(One, starts, 1)
    IN  FlatMap(OfPhrase, phrases, 1)

\* a generic phrase read as a windowed one: a relation for every number near
GenericWithTargets(item_num, t, phrases) ==
    LET text == t.text
        OfPhrase(phrase) ==
            LET One(a) == Emit(item_num, RelationType.GENERIC_EXCLUDES,
                               _extract_item_numbers_around(text, a),
                               phrase.pattern)
            IN  FlatMap(One, PhraseStarts(t, phrase), 1)
    IN  FlatMap(OfPhrase, phrases, 1)

\* lines 295-299
GenericRelations(item_num, t, phrases) ==
    LET OfPhrase(phrase) ==
            IF PhraseFound(t, phrase)
            THEN << <<item_num, RelationType.GENERIC_EXCLUDES, None, phrase.pattern>> >>
            ELSE <<>>
    IN  FlatMap(OfPhrase, phrases, 1)

(***************************************************************************)
(* ITEM_LIST_PATTERN =                                                     *)
(*   \bitems?\s+((?:NUM(?:\s*,\s*|\s+or\s+|\s+and\s+))*NUM)   IGNORECASE   *)
(* SINGLE_ITEM_PATTERN = \bitem\s+(NUM)                       IGNORECASE   *)
(* with NUM = ITEM_NUMBER.  A match is [from, to] (1-based, inclusive) of  *)
(* group 1 and the position next after the match; NoMatch otherwise.       *)
(***************************************************************************)
NoMatch == [from |-> 0, to |-> 0, next |-> 0]

\* the position of the NUM that a separator starting at e leads to, 0 if the
\* text at e is none of  \s*,\s*NUM   \s+or\s+NUM   \s+and\s+NUM
NextListNumber(low, e) ==
    LET p == SkipSpaces(low, e)
        AfterWord(w) == LET q == SkipSpaces(low, p + Len(w))
                        IN  IF p > e /\ LitAt(low, p, w) /\ q > p + Len(w)
                               /\ ITEM_NUMBER(low, q) > 0
                            THEN q ELSE 0
        comma == LET q == SkipSpaces(low, p + 1)
                 IN  IF Ch(low, p) = "," /\ ITEM_NUMBER(low, q) > 0 THEN q ELSE 0
    IN  IF comma > 0 THEN comma
        ELSE IF AfterWord("or") > 0 THEN AfterWord("or")
        ELSE AfterWord("and")

RECURSIVE ListEnd(_, _)
\* last position of the longest list  NUM (sep NUM)*  whose first NUM is at k
ListEnd(low, k) ==
    LET e == k + ITEM_NUMBER(low, k)
        q == NextListNumber(low, e)
    IN  IF q > 0 THEN ListEnd(low, q) ELSE e - 1

ITEM_LIST_PATTERN(low, i) ==
    IF ~(WordBoundary(low, i) /\ LitAt(low, i, "item")) THEN NoMatch
    ELSE LET j == IF Ch(low, i + 4) = "s" THEN i + 5 ELSE i + 4
             k == SkipSpaces(low, j)
         IN  IF k > j /\ ITEM_NUMBER(low, k) > 0
             THEN [from |-> k, to |-> ListEnd(low, k),
                   next |-> ListEnd(low, k) + 1]
             ELSE NoMatch

\* the pattern with an optional plural: \bitems?\s+(ITEM_NUMBER)
SINGLE_ITEM_OR_ITEMS(low, i) ==
    IF ~(WordBoundary(low, i) /\ LitAt(low, i, "item")) THEN NoMatch
    ELSE LET j == IF Ch(low, i + 4) = "s" THEN i + 5 ELSE i + 4
             k == SkipSpaces(low, j)
             n == ITEM_NUMBER(low, k)
         IN  IF k > j /\ n > 0
             THEN [from |-> k, to |-> k + n - 1, next |-> k + n]
             ELSE NoMatch

SINGLE_ITEM_PATTERN(low, i) ==
    IF ~(WordBoundary(low, i) /\ LitAt(low, i, "item")) THEN NoMatch
    ELSE LET k == SkipSpaces(low, i + 4)
             n == ITEM_NUMBER(low, k)
         IN  IF k > i + 4 /\ n > 0
             THEN [from |-> k, to |-> k + n - 1, next |-> k + n]
             ELSE NoMatch

\* pattern.finditer(text) for the two item patterns, which begin with the
\* letter i: group 1 of every match, left to right
FindIter(Pattern(_, _), t) ==
    LET low == t.low
        text == t.text
        starts == {i \in PositionsOf(t, "i") : Pattern(low, i).next > 0}
        After(p) == Pattern(low, p).next
        found == Scan(starts, After, 1)
    IN  [n \in 1..Len(found) |->
            SubSeq(text, Pattern(low, found[n]).from, Pattern(low, found[n]).to)]

\* lines 332-337
ItemListRelations(item_num, t) ==
    LET OfSegment(segment) ==
            Emit(item_num, RelationType.EXCLUDES, _expand_item_list(segment),
                 "items list")
    IN  FlatMap(OfSegment, FindIter(ITEM_LIST_PATTERN, t), 1)

\* lines 340-345
SingleItemRelations(item_num, t) ==
    Emit(item_num, RelationType.EXCLUDES,
         FindIter(SINGLE_ITEM_PATTERN, t),
         "single item mention")

\* the derived fee scanned as the description is, for single item mentions
DerivedFeeAsMentions(item_num, derived_fee) ==
    IF derived_fee = None \/ derived_fee = "" THEN <<>>
    ELSE Emit(item_num, RelationType.EXCLUDES,
              FindIter(SINGLE_ITEM_PATTERN, Prepared(derived_fee)),
              "single item mention")

\* lines 348-354
DerivedFeeRelations(item_num, derived_fee) ==
    IF derived_fee \in Falsy THEN <<>>
    ELSE Emit(item_num, RelationType.DERIVED_FEE_REF,
              FindIter(SINGLE_ITEM_PATTERN, Prepared(derived_fee)), "derived fee")

\* `description or ""`
OrEmpty(description) == IF description \in Falsy THEN "" ELSE description

\* a list that outlives the call: what the last call left in it
LeftoverList ==
    IF relations = NotCalled \/ relations = TypeError THEN <<>>
    ELSE relations

\* the list a call starts from (relations = [], constraints = [])
NewList == <<>>

\* the list `relations` of extract_relations before de-duplication, read
\* with the pattern lists lib (lines 283-354)
EmittedRelations(lib, item_num, description, derived_fee) ==
    LET t == Prepared(OrEmpty(description))
    IN       (NewList
              \o WindowedRelations(item_num, t, lib.EXCLUDE_PHRASES,
                                   RelationType.EXCLUDES)
              \o GenericRelations(item_num, t, lib.GENERIC_EXCLUDE_PHRASES)
              \o WindowedRelations(item_num, t, lib.SAME_DAY_EXCLUDE_PHRASES,
                                   RelationType.SAME_DAY_EXCLUDES)
              \o WindowedRelations(item_num, t, lib.ALLOW_SAME_DAY_PHRASES,
                                   RelationType.ALLOWS_SAME_DAY)
              \o WindowedRelations(item_num, t, lib.PREREQ_PHRASES,
                                   RelationType.PREREQUISITE)
              \o ItemListRelations(item_num, t)
              \o SingleItemRelations(item_num, t)
              \o DerivedFeeRelations(item_num, derived_fee))

\* extract_relations over the pattern lists lib (lines 280-358)
\* re.finditer (line 288) and SINGLE_ITEM_PATTERN.finditer (line 349) raise
\* TypeError for a text that is no string
extract_relations_in(lib, item_num, description, derived_fee) ==
    IF OrEmpty(description) \in NonStrings THEN TypeError
    ELSE IF derived_fee \notin Falsy /\ derived_fee \in NonStrings THEN TypeError
    ELSE Dedup(EmittedRelations(lib, item_num, description, derived_fee))

\* the loops of extract_relations in their order (lines 286-354), named as
\* where a call stands before each
RelationLoops ==
    <<"exclude", "generic_exclude", "same_day_exclude", "allow_same_day",
      "prerequisite", "items_list", "single_item", "derived_fee">>

\* the rows that loop n of extract_relations appends, read with the pattern
\* lists lib
LoopRelations(lib, n, call) ==
    CASE n = 1 -> WindowedRelations(call.item_num,
                                    Prepared(OrEmpty(call.description)),
                                    lib.EXCLUDE_PHRASES, RelationType.EXCLUDES)
      [] n = 2 -> GenericRelations(call.item_num,
                                   Prepared(OrEmpty(call.description)),
                                   lib.GENERIC_EXCLUDE_PHRASES)
      [] n = 3 -> WindowedRelations(call.item_num,
                                    Prepared(OrEmpty(call.description)),
                                    lib.SAME_DAY_EXCLUDE_PHRASES,
                                    RelationType.SAME_DAY_EXCLUDES)
      [] n = 4 -> WindowedRelations(call.item_num,
                                    Prepared(OrEmpty(call.description)),
                                    lib.ALLOW_SAME_DAY_PHRASES,
                                    RelationType.ALLOWS_SAME_DAY)
      [] n = 5 -> WindowedRelations(call.item_num,
                                    Prepared(OrEmpty(call.description)),
                                    lib.PREREQ_PHRASES,
                                    RelationType.PREREQUISITE)
      [] n = 6 -> ItemListRelations(call.item_num,
                                    Prepared(OrEmpty(call.description)))
      [] n = 7 -> SingleItemRelations(call.item_num,
                                      Prepared(OrEmpty(call.description)))
      [] n = 8 -> DerivedFeeRelations(call.item_num, call.derived_fee)

\* loop n raises TypeError: re.finditer of the first loop (line 288) for a
\* description that is no string, SINGLE_ITEM_PATTERN.finditer of the last
\* (line 349) for a derived fee that is no string
LoopRaises(n, call) ==
    \/ n = 1 /\ OrEmpty(call.description) \in NonStrings
    \/ /\ n = Len(RelationLoops)
       /\ call.derived_fee \notin Falsy
       /\ call.derived_fee \in NonStrings

(***************************************************************************)
(* The compiled patterns of extract_constraints.  A pattern is the list of *)
(* its top-level alternatives, an alternative a list of elements:          *)
(*   B         \b                    Sp1, Sp0   \s+ and \s*                *)
(*   Lit(ws)   (?:w1|w2|...)         Cap(ws)    (w1|w2|...)                *)
(*   Num       (\d+)                 AnyOpt     .?                         *)
(*   Letter    ([a-z])               Clause     ([^;\n]+)                  *)
(*   ClauseEnd [;\n]                                                       *)
(* An optional letter is written out as alternatives, the longer first     *)
(* (hours? is Lit(<<"hours", "hour">>)).  Matching is the backtracking of  *)
(* Python's re: every element offers its ways to match in order of         *)
(* preference, and the first way that lets the rest match is taken.        *)
(* All patterns are compiled with re.IGNORECASE: they are matched against  *)
(* the lower-cased text, captures are cut from the text as written.        *)
(***************************************************************************)
B == [k |-> "b"]
Sp1 == [k |-> "sp", min |-> 1]
Sp0 == [k |-> "sp", min |-> 0]
Lit(ws) == [k |-> "lit", alts |-> ws]
Cap(ws) == [k |-> "cap", alts |-> ws]
Num == [k |-> "num"]
AnyOpt == [k |-> "anyopt"]
Letter == [k |-> "letter"]
Clause == [k |-> "clause"]
ClauseEnd == [k |-> "clauseend"]

NoCap == "<no group>"

\* number of consecutive characters from position i on that satisfy In
RunLength(In(_), low, i) ==
    IF i > Len(low) THEN 0
    ELSE (CHOOSE p \in i..(Len(low) + 1) :
              /\ p > Len(low) \/ ~In(Ch(low, p))
              /\ \A q \in i..(p - 1) : In(Ch(low, q))) - i

IsClauseChar(c) == c # "" /\ c \notin {";", "\n"}

\* the ways a greedy repetition of run characters, at least min of them, can
\* match at i: the longest first
Greedy(t, i, run, min, captures) ==
    IF run < min THEN <<>>
    ELSE [n \in 1..(run - min + 1) |->
            [next |-> i + run - n + 1,
             cap |-> IF captures THEN SubSeq(t.text, i, i + run - n)
                     ELSE NoCap]]

\* the ways the element el can match at position i, in order of preference
Steps(t, el, i) ==
    CASE el.k = "b" ->
           IF WordBoundary(t.low, i) THEN <<[next |-> i, cap |-> NoCap]>>
           ELSE <<>>
      [] el.k \in {"lit", "cap"} ->
           LET hit == SelectSeq(el.alts, LAMBDA w : LitAt(t.low, i, w))
           IN  [n \in 1..Len(hit) |->
                   [next |-> i + Len(hit[n]),
                    cap |-> IF el.k = "cap"
                            THEN SubSeq(t.text, i, i + Len(hit[n]) - 1)
                            ELSE NoCap]]
      [] el.k = "sp" ->
           Greedy(t, i, RunLength(IsSpace, t.low, i), el.min, FALSE)
      [] el.k = "num" ->
           Greedy(t, i, RunLength(IsDigit, t.low, i), 1, TRUE)
      [] el.k = "clause" ->
           Greedy(t, i, RunLength(IsClauseChar, t.low, i), 1, TRUE)
      [] el.k = "anyopt" ->
           IF i <= Len(t.low) /\ Ch(t.low, i) # "\n"
           THEN <<[next |-> i + 1, cap |-> NoCap], [next |-> i, cap |-> NoCap]>>
           ELSE <<[next |-> i, cap |-> NoCap]>>
      [] el.k = "letter" ->
           IF Ch(t.low, i) \in LowerLetters
           THEN <<[next |-> i + 1, cap |-> Ch(t.text, i)]>>
           ELSE <<>>
      [] el.k = "clauseend" ->
           IF Ch(t.low, i) \in {";", "\n"}
           THEN <<[next |-> i + 1, cap |-> NoCap]>>
           ELSE <<>>

Failed == [ok |-> FALSE, next |-> 0, groups |-> <<>>]

RECURSIVE MatchFrom(_, _, _, _, _)
RECURSIVE TrySteps(_, _, _, _, _, _, _)
\* the elements els[k..] match at position i; groups holds the captures so far
MatchFrom(t, els, k, i, groups) ==
    IF k > Len(els) THEN [ok |-> TRUE, next |-> i, groups |-> groups]
    ELSE TrySteps(t, els, k, Steps(t, els[k], i), 1, 0, groups)

\* the first of the steps a..b, in their order, after which the elements
\* els[k+1..] match; b = 0 stands for the last of the steps
TrySteps(t, els, k, steps, a, b, groups) ==
    IF b = 0
    THEN (IF Len(steps) = 0 THEN Failed
          ELSE TrySteps(t, els, k, steps, 1, Len(steps), groups))
    ELSE IF a = b
    THEN MatchFrom(t, els, k + 1, steps[a].next,
                   IF steps[a].cap = NoCap THEN groups
                   ELSE Append(groups, steps[a].cap))
    ELSE LET earlier == TrySteps(t, els, k, steps, a, (a + b) \div 2, groups)
         IN  IF earlier.ok THEN earlier
             ELSE TrySteps(t, els, k, steps, (a + b) \div 2 + 1, b, groups)

RECURSIVE MatchAlternatives(_, _, _, _)
\* the match of the pattern that starts at position i: the first top-level
\* alternative that matches there
MatchAlternatives(t, pattern, a, i) ==
    IF a > Len(pattern) THEN Failed
    ELSE LET r == MatchFrom(t, pattern[a], 1, i, <<>>)
         IN  IF r.ok THEN r ELSE MatchAlternatives(t, pattern, a + 1, i)

MatchAt(t, pattern, i) == MatchAlternatives(t, pattern, 1, i)

\* the first element of an alternative that consumes a character
Lead(alt) == IF alt[1].k = "b" /\ Len(alt) >= 2 THEN alt[2] ELSE alt[1]

\* the element can only match by consuming one of FirstChars(el) first
KnownFirst(el) ==
    \/ el.k \in {"num", "letter"}
    \/ /\ el.k \in {"lit", "cap"}
       /\ \A n \in 1..Len(el.alts) : el.alts[n] # ""

FirstChars(el) ==
    CASE el.k = "num" -> Digits
      [] el.k = "letter" -> LowerLetters
      [] OTHER -> {Ch(el.alts[n], 1) : n \in 1..Len(el.alts)}

\* The positions at which a match of the pattern is tried.  A match begins
\* with a first character of one of its alternatives (\b consumes nothing),
\* so only the positions of these characters are tried; every position when
\* some alternative may begin otherwise.
Tried(t, pattern) ==
    LET leads == {Lead(pattern[a]) : a \in 1..Len(pattern)}
    IN  IF \A el \in leads : KnownFirst(el)
        THEN UNION {PositionsOf(t, c) :
                       c \in UNION {FirstChars(el) : el \in leads}}
        ELSE 1..Len(t.low)

\* of the attempts at, those that matched
Matched(at) == [i \in {k \in DOMAIN at : at[k].ok} |-> at[i]]

\* the matches of the pattern by the position they begin at
Matches(t, pattern) ==
    Matched([i \in Tried(t, pattern) |-> MatchAt(t, pattern, i)])

\* the leftmost of the matches ms, Failed if there is none
LeftmostMatch(ms) ==
    IF DOMAIN ms = {} THEN Failed
    ELSE ms[CHOOSE i \in DOMAIN ms : \A k \in DOMAIN ms : i <= k]

\* the groups of the matches, left to right, overlapping matches left out
GroupsOf(ms, found) == [n \in 1..Len(found) |-> ms[found[n]].groups]

NonOverlapping(ms) ==
    LET After(p) == ms[p].next
    IN  GroupsOf(ms, Scan(DOMAIN ms, After, 1))

\* pattern.search(text): the leftmost match, Failed if there is none
Search(t, pattern) == LeftmostMatch(Matches(t, pattern))

\* pattern.finditer(text): the groups of every match, left to right
FindAll(t, pattern) == NonOverlapping(Matches(t, pattern))

(***************************************************************************)
(* Constraint patterns (lines 43-116, 239-263)                             *)
(***************************************************************************)
Word(w) == Lit(<<w>>)
NoMoreThan == Lit(<<"no more than", "not more than", "maximum of">>)
TimesOrServices == Lit(<<"times", "services", "service">>)
Unit == Cap(<<"day", "week", "month", "year">>)
Units == Cap(<<"days", "day", "weeks", "week", "months", "month",
               "years", "year">>)
Minute_s == Lit(<<"minutes", "minute">>)
Hour_s == Lit(<<"hours", "hour">>)
Year_s == Lit(<<"years", "year">>)

ONCE_PER_LIFE == << <<B, Word("once per lifetime"), B>> >>
PRECEDING_12_MONTHS == << <<B, Word("preceding"), Sp1, Num, Sp1, Word("months"), B>> >>
MAX_TIMES_IN_WINDOW ==
    << <<B, NoMoreThan, Sp1, Num, Sp1, TimesOrServices, Sp1, Word("in"), Sp1,
         Num, Sp1, Word("months"), B>> >>
MAX_PER_WINDOW ==
    << <<B, NoMoreThan, Sp1, Num, Sp1, TimesOrServices, Sp1, Word("per"), Sp1,
         Unit, B>> >>
ONCE_PER_WINDOW == << <<B, Word("once per"), Sp1, Unit, B>> >>
COOLDOWN_GENERIC ==
    << <<B, Lit(<<"not within", "preceding">>), Sp1, Num, Sp1, Units, B>> >>
SAME_OCCASION == << <<B, Word("same "), Lit(<<"occasion", "visit">>), B>> >>

SAME_DAY_ONLY == << <<B, Word("on the same day"), B>> >>
DURATION_MIN == << <<B, Word("at least"), Sp1, Num, Sp1, Word("minutes"), B>> >>
\* the pattern without its alternative `up to`
DURATION_MAX_WithoutUpTo ==
    << <<B, Lit(<<"less than", "no more than">>), Sp1, Num, Sp1,
         Word("minutes"), B>> >>

DURATION_MAX ==
    << <<B, Lit(<<"less than", "up to", "no more than">>), Sp1, Num, Sp1,
         Word("minutes"), B>> >>
DURATION_MIN_HOURS == << <<B, Word("at least"), Sp1, Num, Sp1, Hour_s, B>> >>
\* the third separator is the three characters of line 68, not an en dash
DURATION_RANGE_MINMAX ==
    << <<B, Num, Sp0, Lit(<<"to", "-", "@$^">>), Sp0, Num, Sp1,
         Word("minutes"), B>> >>
DURATION_EXACT_HOURS == << <<B, Num, Sp1, Hour_s, B>> >>

DURATION_APPROXIMATE == << <<B, Word("approximately"), Sp1, Num, Sp1, Minute_s, B>> >>
DURATION_ABOUT == << <<B, Word("about"), Sp1, Num, Sp1, Minute_s, B>> >>
DURATION_OR_MORE ==
    << <<B, Num, Sp1, Minute_s, Sp1, Word("or"), Sp1, Word("more"), B>> >>
DURATION_OR_LESS ==
    << <<B, Num, Sp1, Minute_s, Sp1, Word("or"), Sp1, Word("less"), B>> >>

EVERY_X_PERIOD ==
    << <<B, Word("every"), Sp1, Num, Sp1, Unit, Lit(<<"s", "">>), B>> >>
NotMoreThanPer(unit) ==
    << <<B, Word("not more than"), Sp1, Num, Sp1, TimesOrServices, Sp1,
         Word("per"), Sp1, Word(unit), B>> >>
NOT_MORE_THAN_X_PER_YEAR == NotMoreThanPer("year")
NOT_MORE_THAN_X_PER_MONTH == NotMoreThanPer("month")
NOT_MORE_THAN_X_PER_WEEK == NotMoreThanPer("week")
NOT_MORE_THAN_X_PER_DAY == NotMoreThanPer("day")

\* the pattern with the plural units only
WITHIN_X_PERIOD_PluralOnly ==
    << <<B, Word("within"), Sp1, Num, Sp1,
         Cap(<<"days", "weeks", "months", "years">>), B>> >>

WITHIN_X_PERIOD == << <<B, Word("within"), Sp1, Num, Sp1, Units, B>> >>
AFTER_X_PERIOD == << <<B, Word("after"), Sp1, Num, Sp1, Units, B>> >>

AGE_MIN ==
    << <<B, Word("at least"), Sp1, Num, Sp1, Year_s, B>>,
       <<B, Word("aged"), Sp1, Num, Sp1, Year_s, Sp1, Word("or"), Sp1,
         Word("older"), B>> >>
AGE_MAX ==
    << <<B, Word("under"), Sp1, Num, Sp1, Year_s, B>>,
       <<B, Word("aged"), Sp1, Num, Sp1, Year_s, Sp1, Word("or"), Sp1,
         Word("younger"), B>> >>
TELEHEALTH == << <<B, Word("telehealth")>>, <<Word("video attendance"), B>> >>

LETTERED_CLAUSES ==
    << <<Word("("), Letter, Word(")"), Sp0, Clause, ClauseEnd>> >>

REFERRAL ==
    << <<B, Word("following referral")>>, <<Word("valid referral")>>,
       <<Word("referral"), B>> >>
INITIAL_ATT == << <<B, Word("initial attendance"), B>> >>
SUBSEQUENT_ATT == << <<B, Word("subsequent attendance"), B>> >>
COURSE == << <<B, Word("single course of treatment"), B>> >>

REFERRAL_REQUIRED ==
    << <<B, Word("referral required")>>, <<Word("requires referral")>>,
       <<Word("must be referred"), B>> >>
SPECIALIST_REFERRAL ==
    << <<B, Word("referral required from specialist")>>,
       <<Word("specialist referral")>>,
       <<Word("referral to specialist"), B>> >>
\* the pattern without its last alternative
GP_REFERRAL_WithoutMustBeReferred ==
    << <<B, Word("gp referral")>>, <<Word("referral from gp")>>,
       <<Word("general practitioner referral"), B>> >>

GP_REFERRAL ==
    << <<B, Word("gp referral")>>, <<Word("referral from gp")>>,
       <<Word("general practitioner referral")>>,
       <<Word("must be referred from gp"), B>> >>
TREATMENT_PLAN == << <<B, Word("treatment plan")>>, <<Word("management plan"), B>> >>
CONTINUING_TREATMENT ==
    << <<B, Word("continuing treatment")>>, <<Word("ongoing treatment"), B>> >>
FIRST_VISIT ==
    << <<B, Word("first visit")>>, <<Word("first attendance")>>,
       <<Word("initial visit"), B>> >>
FOLLOW_UP ==
    << <<B, Word("follow"), AnyOpt, Word("up")>>,
       <<Word("follow"), AnyOpt, Word("up visit"), B>> >>

LOCATIONS == <<
    "consulting rooms", "hospital", "home",
    "residential aged care facility", "emergency department",
    "intensive care unit", "icu", "theatre", "outpatient", "inpatient",
    "clinic", "medical centre", "general practice", "specialist rooms",
    "day surgery", "day procedure unit", "recovery room", "ward",
    "private hospital", "public hospital", "community health centre",
    "mental health facility", "rehabilitation centre",
    "palliative care unit", "maternity ward", "paediatric ward",
    "cardiac unit", "neurology unit", "oncology unit",
    "radiology department", "pathology laboratory", "pharmacy",
    "dental surgery", "physiotherapy clinic", "occupational therapy",
    "speech therapy", "dietitian clinic", "psychology clinic",
    "counselling centre", "telehealth", "video consultation",
    "phone consultation", "remote consultation" >>

PROVIDERS == <<
    "general practitioner", "specialist", "consultant physician",
    "medical practitioner", "practice nurse", "gp registrar",
    "diagnostic radiologist", "surgeon", "anaesthetist", "psychiatrist",
    "psychologist", "physiotherapist", "occupational therapist",
    "speech therapist", "dietitian", "pharmacist", "dentist",
    "dental specialist", "nurse practitioner", "midwife",
    "mental health nurse", "community health nurse",
    "palliative care nurse", "oncology nurse", "cardiac nurse",
    "diabetes educator", "social worker", "counsellor",
    "mental health worker", "allied health professional",
    "health professional", "healthcare professional", "medical specialist",
    "surgical specialist", "paediatrician", "geriatrician", "cardiologist",
    "neurologist", "oncologist", "dermatologist", "ophthalmologist",
    "orthopaedic surgeon", "plastic surgeon", "neurosurgeon",
    "cardiothoracic surgeon", "urologist", "gynaecologist", "obstetrician",
    "endocrinologist", "gastroenterologist", "respiratory physician",
    "rheumatologist", "nephrologist", "haematologist", "pathologist",
    "radiologist", "nuclear medicine physician", "emergency physician",
    "intensive care physician", "palliative care physician",
    "rehabilitation physician", "sports physician",
    "occupational physician", "public health physician",
    "forensic physician", "medical officer", "resident medical officer",
    "registrar", "resident", "intern", "medical student",
    "nursing student", "allied health student" >>

(***************************************************************************)
(* int() and str() on decimal numerals                                     *)
(***************************************************************************)
DigitValue(c) ==
    CASE c = "0" -> 0 [] c = "1" -> 1 [] c = "2" -> 2 [] c = "3" -> 3
      [] c = "4" -> 4 [] c = "5" -> 5 [] c = "6" -> 6 [] c = "7" -> 7
      [] c = "8" -> 8 [] c = "9" -> 9

DigitChar(d) ==
    CASE d = 0 -> "0" [] d = 1 -> "1" [] d = 2 -> "2" [] d = 3 -> "3"
      [] d = 4 -> "4" [] d = 5 -> "5" [] d = 6 -> "6" [] d = 7 -> "7"
      [] d = 8 -> "8" [] d = 9 -> "9"

RECURSIVE IntOf(_, _)
\* int(s) of the first n characters of the numeral s
IntOf(s, n) ==
    IF n = 0 THEN 0 ELSE 10 * IntOf(s, n - 1) + DigitValue(Ch(s, n))

RECURSIVE StrOf(_)
\* str(n)
StrOf(n) == IF n < 0 THEN "-" \o StrOf(-n)
            ELSE IF n < 10 THEN DigitChar(n)
            ELSE StrOf(n \div 10) \o DigitChar(n % 10)

RECURSIVE DigitsOf(_, _, _)
\* the digits of s from position i to position j, the underscores between
\* them left out
DigitsOf(s, i, j) ==
    IF i > j THEN ""
    ELSE IF i = j THEN (IF IsDigit(Ch(s, i)) THEN Ch(s, i) ELSE "")
    ELSE DigitsOf(s, i, (i + j) \div 2) \o DigitsOf(s, (i + j) \div 2 + 1, j)

\* the whitespace int() skips before and after a numeral
IntSpaces == {" ", "\t", "\n", "\r", "\f", ""}

\* sys.get_int_max_str_digits(): int() of a numeral and str() of an int
\* raise ValueError on more digits
MAX_STR_DIGITS == 4300

\* the exception str() raises for an int of more than MAX_STR_DIGITS digits
ValueError ==
    "<ValueError: Exceeds the limit (4300 digits) for integer string conversion>"

\* An int of Python has no width.  It is kept as its sign and the decimal
\* digits of its magnitude, without leading zeros; zero is not negative.
Integer(negative, digits) ==
    LET significant == {i \in 1..Len(digits) : Ch(digits, i) # "0"}
    IN  IF significant = {} THEN [negative |-> FALSE, digits |-> "0"]
        ELSE [negative |-> negative,
              digits |-> SubSeq(digits,
                                CHOOSE i \in significant :
                                    \A j \in significant : i <= j,
                                Len(digits))]

\* int(text) of a str: ok is FALSE when int raises ValueError.  A numeral is
\* an optional sign and decimal digits, single underscores allowed between
\* two digits, with whitespace around it.
int(text) ==
    LET kept == {i \in 1..Len(text) : Ch(text, i) \notin IntSpaces}
        body == IF kept = {} THEN ""
                ELSE SubSeq(text, CHOOSE i \in kept : \A j \in kept : i <= j,
                            CHOOSE i \in kept : \A j \in kept : i >= j)
        negative == body # "" /\ Ch(body, 1) = "-"
        signed == body # "" /\ Ch(body, 1) \in {"+", "-"}
        num == IF signed THEN SubSeq(body, 2, Len(body)) ELSE body
        digits == DigitsOf(num, 1, Len(num))
        ok == /\ num # ""
              /\ \A i \in 1..Len(num) :
                    \/ IsDigit(Ch(num, i))
                    \/ /\ Ch(num, i) = "_"
                       /\ 1 < i /\ i < Len(num)
                       /\ IsDigit(Ch(num, i - 1))
                       /\ IsDigit(Ch(num, i + 1))
              /\ Len(digits) <= MAX_STR_DIGITS
    IN  [ok |-> ok,
         value |-> IF ok THEN Integer(negative, digits) ELSE Integer(FALSE, "0")]

RECURSIVE TimesSix(_, _, _, _)
\* six times the digits i..j of s plus the carry that comes in from the
\* right: the digits of the product and the carry that goes out to the left
TimesSix(s, i, j, carry) ==
    IF i = j
    THEN LET product == 6 * DigitValue(Ch(s, i)) + carry
         IN  [carry |-> product \div 10, digits |-> DigitChar(product % 10)]
    ELSE LET middle == (i + j) \div 2
             right == TimesSix(s, middle + 1, j, carry)
             left == IF right.carry >= 0
                     THEN TimesSix(s, i, middle, right.carry)
                     ELSE TimesSix(s, i, middle, 0)
         IN  [carry |-> left.carry, digits |-> left.digits \o right.digits]

\* n * 60 for an int n
TimesSixty(n) ==
    LET six == TimesSix(n.digits, 1, Len(n.digits), 0)
    IN  Integer(n.negative, DigitChar(six.carry) \o six.digits \o "0")

\* try: return int(text_val) * 60; except Exception: return 0
\* (lines 361-365)
_minutes_from_hours(text_val) ==
    IF int(text_val).ok THEN TimesSixty(int(text_val).value)
    ELSE Integer(FALSE, "0")

\* str(n) of an int n: ok is FALSE when str raises ValueError
\* (lines 432, 441)
str(n) ==
    [ok |-> Len(n.digits) <= MAX_STR_DIGITS,
     value |-> IF Len(n.digits) > MAX_STR_DIGITS THEN ValueError
               ELSE IF n.negative THEN "-" \o n.digits
               ELSE n.digits]

(***************************************************************************)
(* extract_constraints (lines 368-607)                                     *)
(***************************************************************************)
\* unit.startswith("day") ... of the cooldown loops
CooldownType(unit) ==
    LET u == Lower(unit)
    IN  IF LitAt(u, 1, "day") THEN ConstraintType.COOLDOWN_DAYS
        ELSE IF LitAt(u, 1, "week") THEN ConstraintType.COOLDOWN_WEEKS
        ELSE IF LitAt(u, 1, "month") THEN ConstraintType.COOLDOWN_MONTHS
        ELSE ConstraintType.COOLDOWN_YEARS

\* the value without the week forms: 1/<count>days for every count of days
EveryValueInDays(count, unit) ==
    IF unit = "day" /\ count # "1" THEN "1/" \o count \o "days"
    ELSE "1/" \o unit

\* the value of max_per_window for one match of EVERY_X_PERIOD (lines 470-489)
EveryValue(count, unit) ==
    IF unit = "day" /\ count # "1"
    THEN IF count = "7" THEN "1/week"
         ELSE IF count = "14" THEN "1/2weeks"
         ELSE "1/" \o count \o "days"
    ELSE "1/" \o unit

\* the text as it is, not stripped
Unstripped(s) == s

\* str.strip()
Strip(s) ==
    LET kept == {i \in 1..Len(s) : ~IsSpace(Ch(s, i))}
    IN  IF kept = {} THEN ""
        ELSE SubSeq(s, CHOOSE i \in kept : \A j \in kept : i <= j,
                       CHOOSE i \in kept : \A j \in kept : i >= j)

\* `if PATTERN.search(text): constraints.append((item_num, type, value))`,
\* m the result of the search
Flag(m, item_num, type, value) ==
    IF m.ok THEN << <<item_num, type, value>> >> ELSE <<>>

\* `for m in PATTERN.finditer(text): constraints.append(...)`, ms the groups
\* of the matches and the value computed from the groups of each
ForEach(ms, item_num, TypeOf(_), ValueOf(_)) ==
    [n \in 1..Len(ms) |-> <<item_num, TypeOf(ms[n]), ValueOf(ms[n])>>]

\* the search without the two \b: the word anywhere in the text
WordFoundAnywhere(t, w) ==
    \E i \in PositionsOf(t, Ch(w, 1)) : LitAt(t.low, i, w)

\* re.search(rf"\b{re.escape(w)}\b", text, re.IGNORECASE) is not None
WordFound(t, w) ==
    \E i \in PositionsOf(t, Ch(w, 1)) :
        /\ WordBoundary(t.low, i)
        /\ LitAt(t.low, i, w)
        /\ WordBoundary(t.low, i + Len(w))

\* one constraint for every word of the vocabulary found in the text, in
\* the order of the vocabulary (lines 536-543)
Vocabulary(t, words, item_num, type) ==
    LET found == SelectSeq(words, LAMBDA w : WordFound(t, w))
    IN  [n \in 1..Len(found) |-> <<item_num, type, found[n]>>]

\* the compiled patterns of the module by name
CompiledPatterns ==
    [AFTER_X_PERIOD |-> AFTER_X_PERIOD,
     AGE_MAX |-> AGE_MAX,
     AGE_MIN |-> AGE_MIN,
     CONTINUING_TREATMENT |-> CONTINUING_TREATMENT,
     COOLDOWN_GENERIC |-> COOLDOWN_GENERIC,
     COURSE |-> COURSE,
     DURATION_ABOUT |-> DURATION_ABOUT,
     DURATION_APPROXIMATE |-> DURATION_APPROXIMATE,
     DURATION_EXACT_HOURS |-> DURATION_EXACT_HOURS,
     DURATION_MAX |-> DURATION_MAX,
     DURATION_MIN |-> DURATION_MIN,
     DURATION_MIN_HOURS |-> DURATION_MIN_HOURS,
     DURATION_OR_LESS |-> DURATION_OR_LESS,
     DURATION_OR_MORE |-> DURATION_OR_MORE,
     DURATION_RANGE_MINMAX |-> DURATION_RANGE_MINMAX,
     EVERY_X_PERIOD |-> EVERY_X_PERIOD,
     FIRST_VISIT |-> FIRST_VISIT,
     FOLLOW_UP |-> FOLLOW_UP,
     GP_REFERRAL |-> GP_REFERRAL,
     INITIAL_ATT |-> INITIAL_ATT,
     LETTERED_CLAUSES |-> LETTERED_CLAUSES,
     MAX_PER_WINDOW |-> MAX_PER_WINDOW,
     MAX_TIMES_IN_WINDOW |-> MAX_TIMES_IN_WINDOW,
     NOT_MORE_THAN_X_PER_DAY |-> NOT_MORE_THAN_X_PER_DAY,
     NOT_MORE_THAN_X_PER_MONTH |-> NOT_MORE_THAN_X_PER_MONTH,
     NOT_MORE_THAN_X_PER_WEEK |-> NOT_MORE_THAN_X_PER_WEEK,
     NOT_MORE_THAN_X_PER_YEAR |-> NOT_MORE_THAN_X_PER_YEAR,
     ONCE_PER_LIFE |-> ONCE_PER_LIFE,
     ONCE_PER_WINDOW |-> ONCE_PER_WINDOW,
     PRECEDING_12_MONTHS |-> PRECEDING_12_MONTHS,
     REFERRAL |-> REFERRAL,
     REFERRAL_REQUIRED |-> REFERRAL_REQUIRED,
     SAME_DAY_ONLY |-> SAME_DAY_ONLY,
     SAME_OCCASION |-> SAME_OCCASION,
     SPECIALIST_REFERRAL |-> SPECIALIST_REFERRAL,
     SUBSEQUENT_ATT |-> SUBSEQUENT_ATT,
     TELEHEALTH |-> TELEHEALTH,
     TREATMENT_PLAN |-> TREATMENT_PLAN,
     WITHIN_X_PERIOD |-> WITHIN_X_PERIOD]

\* the rows that extract_constraints appends to its list, in order
\* (lines 371-603); a row whose value is ValueError stands for the append at
\* which str raises
AppendedConstraints(lib, item_num, description) ==
    LET t == Prepared(OrEmpty(description))
        CT == ConstraintType
        searched == [name \in DOMAIN CompiledPatterns |->
                        Search(t, CompiledPatterns[name])]
        found == [name \in DOMAIN CompiledPatterns |->
                     FindAll(t, CompiledPatterns[name])]
        First(g) == g[1]
        Minutes(g) == str(_minutes_from_hours(g[1])).value
        preceding == searched["PRECEDING_12_MONTHS"]
        in_window == searched["MAX_TIMES_IN_WINDOW"]
        range == searched["DURATION_RANGE_MINMAX"]
        dmin == searched["DURATION_MIN"]
        dmax == searched["DURATION_MAX"]
        MinOf(g) == CT.DURATION_MIN_MINUTES
        MaxOf(g) == CT.DURATION_MAX_MINUTES
        WindowOf(g) == CT.MAX_PER_WINDOW
        CooldownOf(g) == CooldownType(g[2])
        PerUnit(g) == g[1] \o "/" \o Lower(g[2])
        OncePer(g) == "1/" \o Lower(g[1])
        Every(g) == EveryValue(g[1], Lower(g[2]))
        PerYear(g) == g[1] \o "/year"
        PerMonth(g) == g[1] \o "/month"
        PerWeek(g) == g[1] \o "/week"
        PerDay(g) == g[1] \o "/day"
        ClauseValue(g) == "(" \o Lower(g[1]) \o ") " \o Strip(g[2])
        clauses == SelectSeq(found["LETTERED_CLAUSES"],
                             LAMBDA g : Strip(g[2]) # "")
        AgeMinOf(g) == CT.AGE_MIN_YEARS
        AgeMaxOf(g) == CT.AGE_MAX_YEARS
    IN   (
          Flag(searched["ONCE_PER_LIFE"], item_num, CT.ONCE_PER_LIFETIME, "true")
          \o (IF preceding.ok
              THEN << <<item_num, CT.COOLDOWN_MONTHS, preceding.groups[1]>> >>
              ELSE <<>>)
          \o (IF in_window.ok /\ in_window.groups[2] = "12"
              THEN << <<item_num, CT.MAX_PER_12_MONTHS, in_window.groups[1]>> >>
              ELSE <<>>)
          \o ForEach(found["MAX_PER_WINDOW"], item_num, WindowOf, PerUnit)
          \o ForEach(found["ONCE_PER_WINDOW"], item_num, WindowOf, OncePer)
          \o ForEach(found["COOLDOWN_GENERIC"], item_num, CooldownOf, First)
          \o Flag(searched["SAME_DAY_ONLY"], item_num, CT.SAME_DAY_ONLY, "true")
          \o Flag(searched["SAME_OCCASION"], item_num, CT.SAME_OCCASION, "true")
          \o (IF range.ok
              THEN << <<item_num, CT.DURATION_MIN_MINUTES, range.groups[1]>>,
                      <<item_num, CT.DURATION_MAX_MINUTES, range.groups[2]>> >>
              ELSE <<>>)
          \o (IF dmin.ok
              THEN << <<item_num, CT.DURATION_MIN_MINUTES, dmin.groups[1]>> >>
              ELSE <<>>)
          \o ForEach(found["DURATION_MIN_HOURS"], item_num, MinOf, Minutes)
          \o ForEach(found["DURATION_EXACT_HOURS"], item_num, MinOf, Minutes)
          \o (IF dmax.ok
              THEN << <<item_num, CT.DURATION_MAX_MINUTES, dmax.groups[1]>> >>
              ELSE <<>>)
          \o ForEach(found["DURATION_APPROXIMATE"], item_num, MinOf, First)
          \o ForEach(found["DURATION_ABOUT"], item_num, MinOf, First)
          \o ForEach(found["DURATION_OR_MORE"], item_num, MinOf, First)
          \o ForEach(found["DURATION_OR_LESS"], item_num, MaxOf, First)
          \o ForEach(found["EVERY_X_PERIOD"], item_num, WindowOf, Every)
          \o ForEach(found["NOT_MORE_THAN_X_PER_YEAR"], item_num, WindowOf, PerYear)
          \o ForEach(found["NOT_MORE_THAN_X_PER_MONTH"], item_num, WindowOf, PerMonth)
          \o ForEach(found["NOT_MORE_THAN_X_PER_WEEK"], item_num, WindowOf, PerWeek)
          \o ForEach(found["NOT_MORE_THAN_X_PER_DAY"], item_num, WindowOf, PerDay)
          \o ForEach(found["WITHIN_X_PERIOD"], item_num, CooldownOf, First)
          \o ForEach(found["AFTER_X_PERIOD"], item_num, CooldownOf, First)
          \o Vocabulary(t, lib.LOCATIONS, item_num, CT.LOCATION)
          \o Vocabulary(t, lib.PROVIDERS, item_num, CT.PROVIDER)
          \o [n \in 1..Len(clauses) |->
                <<item_num, CT.REQUIREMENT, ClauseValue(clauses[n])>>]
          \o Flag(searched["REFERRAL"], item_num, CT.REQUIRES_REFERRAL, "true")
          \o Flag(searched["INITIAL_ATT"], item_num, CT.INITIAL_ATTENDANCE, "true")
          \o Flag(searched["SUBSEQUENT_ATT"], item_num, CT.SUBSEQUENT_ATTENDANCE, "true")
          \o Flag(searched["COURSE"], item_num, CT.SINGLE_COURSE, "true")
          \o Flag(searched["REFERRAL_REQUIRED"], item_num, CT.REQUIRES_REFERRAL, "true")
          \o Flag(searched["SPECIALIST_REFERRAL"], item_num, CT.REQUIRES_REFERRAL,
                  "specialist")
          \o Flag(searched["GP_REFERRAL"], item_num, CT.REQUIRES_REFERRAL, "gp")
          \o Flag(searched["TREATMENT_PLAN"], item_num, CT.REQUIREMENT,
                  "treatment plan required")
          \o Flag(searched["CONTINUING_TREATMENT"], item_num, CT.REQUIREMENT,
                  "continuing treatment")
          \o Flag(searched["FIRST_VISIT"], item_num, CT.INITIAL_ATTENDANCE, "true")
          \o Flag(searched["FOLLOW_UP"], item_num, CT.SUBSEQUENT_ATTENDANCE, "true")
          \o ForEach(found["AGE_MIN"], item_num, AgeMinOf, First)
          \o ForEach(found["AGE_MAX"], item_num, AgeMaxOf, First)
          \o Flag(searched["TELEHEALTH"], item_num, CT.TELEHEALTH, "true"))

\* the list `constraints` of extract_constraints before de-duplication
\* (lines 369-603)
EmittedConstraints(lib, item_num, description) ==
    NewList \o AppendedConstraints(lib, item_num, description)

\* what the call gives for the rows it appended: ValueError when str raised
\* at one of them, list(dict.fromkeys(constraints)) otherwise (line 606)
ReturnedOrRaised(emitted) ==
    IF \E n \in 1..Len(emitted) : emitted[n][3] = ValueError
    THEN ValueError
    ELSE Dedup(emitted)

\* extract_constraints over the vocabularies lib (lines 368-607)
\* ONCE_PER_LIFE.search (line 372) raises TypeError for a text that is no
\* string; str (lines 432, 441) raises ValueError for a number of minutes of
\* more than MAX_STR_DIGITS digits, and no handler catches either
extract_constraints_in(lib, item_num, description) ==
    IF OrEmpty(description) \in NonStrings THEN TypeError
    ELSE ReturnedOrRaised(EmittedConstraints(lib, item_num, description))

PatternLibrary ==
    [EXCLUDE_PHRASES |-> EXCLUDE_PHRASES,
     GENERIC_EXCLUDE_PHRASES |-> GENERIC_EXCLUDE_PHRASES,
     SAME_DAY_EXCLUDE_PHRASES |-> SAME_DAY_EXCLUDE_PHRASES,
     ALLOW_SAME_DAY_PHRASES |-> ALLOW_SAME_DAY_PHRASES,
     PREREQ_PHRASES |-> PREREQ_PHRASES,
     LOCATIONS |-> LOCATIONS,
     PROVIDERS |-> PROVIDERS]

extract_relations(item_num, description, derived_fee) ==
    extract_relations_in(PatternLibrary, item_num, description, derived_fee)

extract_constraints(item_num, description) ==
    extract_constraints_in(PatternLibrary, item_num, description)

(***************************************************************************)
(* The threads of a process that call the extractors.  A thread in a call  *)
(* keeps the arguments of the call, the statement it runs next, its local  *)
(* list, and how many calls had returned when it began.                    *)
(***************************************************************************)
Threads == {1, 2}

\* no call
NoCall ==
    [fn |-> "none", item_num |-> None, description |-> None,
     derived_fee |-> None]

\* a thread that is in no call
Idle == [at |-> "idle", call |-> NoCall, list |-> <<>>, began |-> 0]

NoThreads == [th \in Threads |-> Idle]

(***************************************************************************)
(* The loader at rest: no load run has started, the database has no table. *)
(***************************************************************************)
\* the local variables of main() before a run: run_no counts the runs started
NoRun ==
    [run_no |-> 0, source |-> <<>>, items |-> <<>>, i |-> 1,
     rel_rows |-> <<>>, con_rows |-> <<>>,
     parse_time |-> 0, insert_time |-> 0, extraction_time |-> 0,
     insert_relcon_time |-> 0, analysis |-> None, error |-> None,
     failed_at |-> None]
NoTables == [items |-> None, relations |-> None, constraints |-> None]

\* no request was made to the API and none is being handled: codes, status
\* and body are the last request answered and its answer; at is where
\* get_items stands with the request it handles, pending its codes
\* parameter, k the index in code_list of the code being fetched, items the
\* list built so far, item_row and rel_rows what fetch_item_aggregate has
\* read for the code
NoRequest ==
    [codes |-> None, status |-> None, body |-> None,
     at |-> "idle", pending |-> None, k |-> 1, items |-> <<>>,
     item_row |-> None, rel_rows |-> <<>>]

NoLoad ==
    /\ pc = "idle"
    /\ main = NoRun
    /\ store = NoTables
    /\ log = <<>>

(***************************************************************************)
(* Inputs.  A description is a concatenation of at most MaxFragments       *)
(* fragments of a vocabulary, or two fragments with a filler between them: *)
(* Filler(n) is n characters of running text without digits or letters,    *)
(* which puts a number at the edge of the window around a phrase.          *)
(***************************************************************************)
MaxFragments == 2

RECURSIVE Filler(_)
Filler(n) == IF n = 0 THEN ""
             ELSE IF n % 2 = 1 THEN "." \o Filler(n - 1)
             ELSE Filler(n \div 2) \o Filler(n \div 2)

RECURSIVE Concat(_, _)
Concat(fs, i) == IF i > Len(fs) THEN "" ELSE fs[i] \o Concat(fs, i + 1)

TextsOver(fragments, n) ==
    {Concat(fs, 1) : fs \in UNION {[1..k -> fragments] : k \in 0..n}}

FilledOver(fragments, lengths) ==
    {a \o Filler(n) \o b : a \in fragments, b \in fragments, n \in lengths}

RelationFragments ==
    {"not on the same day as item ",
     "Other than a service to which item ",
     "may be claimed on the same day as item ",
     "requires a service to which item ",
     "other than a service to which another item in the table applies ",
     "Items ", "36 ", "106, 36 or 106 and 16401 ", "item 16401, 106 ",
     "items 106 or 16401 ", "16401"}

FillerLengths ==
    {WINDOW - 33, WINDOW - 30, WINDOW - 28, WINDOW - 17, WINDOW - 4, WINDOW}

ItemNums == {"23", "36"}

RelationDescriptions ==
    TextsOver(RelationFragments, MaxFragments)
        \cup FilledOver(RelationFragments, FillerLengths)

DerivedFees ==
    {None, "", "item 36", "Item 23 or item 5", "items 7 and item 123456 ",
     "see item 36, item 36 and item 106 "}

\* the calls of extract_relations
RelationCalls ==
    [fn : {"extract_relations"}, item_num : ItemNums,
     description : RelationDescriptions, derived_fee : {None}]
        \cup [fn : {"extract_relations"}, item_num : ItemNums,
              description : TextsOver(RelationFragments, 1) \cup {None},
              derived_fee : DerivedFees]

MaxClauses == 2

DurationFragments ==
    {"lasting at least 6 minutes and ", "less than 20 minutes ",
     "Approximately 15 minute ", "about 10 minutes ", "30 minutes or more ",
     "up to 45 minutes ", "no more than 5 minutes ", "25 minute or less ",
     "45~60 minutes ", "45-60 minutes ", "20 to 40 minutes ",
     "lasting at least 1 hour and ", "At least 2 hours ", "up to 3 hours ",
     "less than 4 hours ", "no more than 2 hours "}

ConstraintDescriptions ==
    TextsOver(DurationFragments, MaxClauses) \cup {None}

\* the calls of extract_constraints (which has no derived_fee)
ConstraintCalls ==
    [fn : {"extract_constraints"}, item_num : ItemNums,
     description : ConstraintDescriptions, derived_fee : {None}]

Init ==
    /\ args \in RelationCalls \cup ConstraintCalls
    /\ relations = NotCalled
    /\ constraints = NotCalled
    /\ library = PatternLibrary
    /\ history = <<>>
    /\ threads = NoThreads
    /\ NoLoad
    /\ api = NoRequest

\* the call extract_relations(item_num, description, derived_fee) returns
ExtractRelations ==
    /\ args.fn = "extract_relations"
    /\ relations = NotCalled
    /\ relations' = extract_relations_in(library, args.item_num,
                                         args.description, args.derived_fee)
    /\ UNCHANGED <<args, constraints, library, calls, loader, api>>

\* the call extract_constraints(item_num, description) returns
ExtractConstraints ==
    /\ args.fn = "extract_constraints"
    /\ constraints = NotCalled
    /\ constraints' = extract_constraints_in(library, args.item_num,
                                             args.description)
    /\ UNCHANGED <<args, relations, library, calls, loader, api>>

Next == ExtractRelations \/ ExtractConstraints

Spec == Init /\ [][Next]_vars

(***************************************************************************)
(* The extractors called again and again by the threads of one process: at *)
(* most MaxCalls calls, on any of a few arguments, one after another or    *)
(* while the call of the other thread is under way.  A call runs statement *)
(* by statement: its list is created, every loop appends its rows, and the *)
(* de-duplicated list is returned.  history records every call that        *)
(* returned with what it returned; args, relations and constraints are of  *)
(* the call that returned last; library is the module-level state that the *)
(* calls read.                                                             *)
(***************************************************************************)
MaxCalls == 3

RepeatedCalls ==
    {[fn |-> "extract_relations", item_num |-> "23",
      description |-> "not on the same day as item 36 ",
      derived_fee |-> None],
     [fn |-> "extract_relations", item_num |-> "23",
      description |-> "Items 106, 36 or 106 and 16401 ",
      derived_fee |-> "item 36"],
     [fn |-> "extract_relations", item_num |-> "36",
      description |-> None, derived_fee |-> "<5>"],
     [fn |-> "extract_constraints", item_num |-> "23",
      description |-> "At least 2 hours ", derived_fee |-> None]}

InitCalls ==
    /\ args = NoCall
    /\ relations = NotCalled
    /\ constraints = NotCalled
    /\ library = PatternLibrary
    /\ history = <<>>
    /\ threads = NoThreads
    /\ NoLoad
    /\ api = NoRequest

\* the calls begun, returned or under way
Begun ==
    Len(history) + Cardinality({th \in Threads : threads[th].at # "idle"})

\* a thread begins the call: its list is created
Begins(th, call, at) ==
    /\ Begun < MaxCalls
    /\ threads[th].at = "idle"
    /\ threads' = [threads EXCEPT
                      ![th] = [at |-> at, call |-> call, list |-> NewList,
                               began |-> Len(history)]]
    /\ UNCHANGED <<args, relations, constraints, library, history, loader,
                   api>>

\* the call of a thread ends, with the list it returns or the exception it
\* raises
Returns(th, result) ==
    /\ args' = threads[th].call
    /\ IF threads[th].call.fn = "extract_relations"
       THEN relations' = result /\ UNCHANGED constraints
       ELSE constraints' = result /\ UNCHANGED relations
    /\ history' = Append(history, [call |-> threads[th].call,
                                   result |-> result,
                                   began |-> threads[th].began])
    /\ threads' = [threads EXCEPT ![th] = Idle]
    /\ UNCHANGED <<library, loader, api>>

\* a thread calls extract_relations: relations = []  (lines 280-284)
CallRelations ==
    \E th \in Threads, call \in RepeatedCalls :
        /\ call.fn = "extract_relations"
        /\ Begins(th, call, RelationLoops[1])

\* a thread calls extract_constraints: constraints = []  (lines 368-370)
CallConstraints ==
    \E th \in Threads, call \in RepeatedCalls :
        /\ call.fn = "extract_constraints"
        /\ Begins(th, call, "scan")

\* a thread in extract_relations runs one loop, which appends its rows to
\* the list of the call or raises  (lines 286-354)
RelationsLoop ==
    \E th \in Threads, n \in DOMAIN RelationLoops :
        /\ threads[th].at = RelationLoops[n]
        /\ IF LoopRaises(n, threads[th].call)
           THEN Returns(th, TypeError)
           ELSE /\ threads' =
                      [threads EXCEPT
                          ![th].list = @ \o LoopRelations(library, n,
                                                          threads[th].call),
                          ![th].at = IF n < Len(RelationLoops)
                                     THEN RelationLoops[n + 1]
                                     ELSE "return"]
                /\ UNCHANGED <<args, relations, constraints, library, history,
                               loader, api>>

\* a thread in extract_constraints scans the description, which appends the
\* rows to the list of the call or raises  (lines 371-603)
ConstraintsScan ==
    \E th \in Threads :
        /\ threads[th].at = "scan"
        /\ IF OrEmpty(threads[th].call.description) \in NonStrings
           THEN Returns(th, TypeError)
           ELSE /\ threads' =
                      [threads EXCEPT
                          ![th].list =
                              @ \o AppendedConstraints(
                                       library, threads[th].call.item_num,
                                       threads[th].call.description),
                          ![th].at = "return"]
                /\ UNCHANGED <<args, relations, constraints, library, history,
                               loader, api>>

\* a thread returns from its call: list(dict.fromkeys(...)) of its list
\* (lines 357-358 and 606-607)
Return ==
    \E th \in Threads :
        /\ threads[th].at = "return"
        /\ Returns(th, IF threads[th].call.fn = "extract_relations"
                       THEN Dedup(threads[th].list)
                       ELSE ReturnedOrRaised(threads[th].list))

NextCalls ==
    \/ CallRelations
    \/ CallConstraints
    \/ RelationsLoop
    \/ ConstraintsScan
    \/ Return

SpecCalls == InitCalls /\ [][NextCalls]_vars

(***************************************************************************)
(* extract_constraints on descriptions made of at most MaxPhrases phrases  *)
(* of one kind: frequencies, cooldowns, referrals, lettered clauses, the   *)
(* words of the vocabularies.                                              *)
(***************************************************************************)
MaxPhrases == 2

FrequencyFragments ==
    {"every 7 days ", "Every 14 Days ", "every 1 day ", "every 1 days ",
     "every 3 days ", "every 7 day ", "every 07 days ", "every 147 days ",
     "every 2 weeks ", "once per day "}

CooldownFragments ==
    {"not within 12 months ", "preceding 14 days ", "within 1 year ",
     "Within 1 Years ", "after 3 weeks ", "After 3 week ",
     "preceding 12 month ", "not within 2 day ", "hereafter 5 days ",
     "within 6 monthly "}

ReferralFragments ==
    {"requires specialist referral, ", "must be referred from gp ",
     "Referral required ", "following referral ", "GP referral needed ",
     "referral to specialist ", "general practitioner referral ",
     "a valid referral ", "must be referred ", "referred by a gp ",
     "referral required from specialist "}

ClauseFragments ==
    {"(a) taking a history; ", "(b) examining the patient;",
     "(C) Arranging tests;", "(d)implementing a plan\n", "(e) x (f) y; ",
     "(g) ;", "(h) unfinished", "(i)\nnext line;",
     "see (j)  two  spaces ; "}

VocabularyFragments ==
    {"in the Hospital ", "hospitalised ", "at HOME, ", "homeless ",
     "private hospital ", "by a Specialist ", "specialists ",
     "general practitioner ", "consulting  rooms ", "in-hospital ",
     "at the clinic, in the ward "}

PhraseDescriptions ==
    TextsOver(FrequencyFragments, MaxPhrases)
        \cup TextsOver(CooldownFragments, MaxPhrases)
        \cup TextsOver(ReferralFragments, MaxPhrases)
        \cup TextsOver(ClauseFragments, MaxPhrases)
        \cup TextsOver(VocabularyFragments, MaxPhrases)

PhraseCalls ==
    [fn : {"extract_constraints"}, item_num : {"23"},
     description : PhraseDescriptions, derived_fee : {None}]

InitPhrases ==
    /\ args \in PhraseCalls
    /\ relations = NotCalled
    /\ constraints = NotCalled
    /\ library = PatternLibrary
    /\ history = <<>>
    /\ threads = NoThreads
    /\ NoLoad
    /\ api = NoRequest

NextPhrases == ExtractConstraints

SpecPhrases == InitPhrases /\ [][NextPhrases]_vars

(***************************************************************************)
(* The extractors called with values of any kind for the description and   *)
(* the derived fee, and extract_constraints called with a number of hours  *)
(* whose minutes have more digits than str() converts.                     *)
(***************************************************************************)
BoundaryValues == NonStrings \cup {"", "item 36 ", "once per lifetime "}

RECURSIVE Repeated(_, _)
\* s * n: the text s written n times
Repeated(s, n) ==
    IF n = 0 THEN ""
    ELSE IF n = 1 THEN s
    ELSE Repeated(s, n \div 2) \o Repeated(s, n - n \div 2)

\* a number of hours of MAX_STR_DIGITS - 1 digits: int() takes it, sixty
\* times the number has MAX_STR_DIGITS + 1 digits
OverlongHours == "at least " \o Repeated("9", MAX_STR_DIGITS - 1) \o " hours "

BoundaryCalls ==
    [fn : {"extract_relations"}, item_num : ItemNums,
     description : BoundaryValues, derived_fee : BoundaryValues]
        \cup [fn : {"extract_constraints"}, item_num : ItemNums,
              description : BoundaryValues \cup {OverlongHours},
              derived_fee : {None}]

InitBoundary ==
    /\ args \in BoundaryCalls
    /\ relations = NotCalled
    /\ constraints = NotCalled
    /\ library = PatternLibrary
    /\ history = <<>>
    /\ threads = NoThreads
    /\ NoLoad
    /\ api = NoRequest

SpecBoundary == InitBoundary /\ [][Next]_vars

(***************************************************************************)
(* The loader: main() of src/src/mbs_clarity/_loader.py with the database  *)
(* of src/src/db.py.  A load run resets the database, parses the source,   *)
(* inserts the items, calls both extractors on every item, inserts the     *)
(* relations and the constraints, analyses the items again and reports.    *)
(* A source file is the list of its item entries; an entry keeps the text  *)
(* of the elements the extraction reads (ItemNum, Description,             *)
(* DerivedFee), None for an element the entry does not have.  The parser   *)
(* makes an item record of an entry: item_num a non-empty string,          *)
(* description and derived_fee a non-empty string or None.  A call of the  *)
(* database or of the parser may raise, and main() catches nothing.  A     *)
(* table is the list of its rows in the order of their rowid, None when    *)
(* the table does not exist.                                               *)
(***************************************************************************)
MaxItems == 2
MaxRuns == 2

\* the entries a source file may hold, one of them without an item number
Entries ==
    {[item_num |-> "23",
      description |-> "not on the same day as item 36 (a) taking a history;",
      derived_fee |-> None],
     [item_num |-> "36", description |-> None, derived_fee |-> "item 23"],
     [item_num |-> " 44 ", description |-> "Once per lifetime ",
      derived_fee |-> " "],
     [item_num |-> "23", description |-> "", derived_fee |-> None],
     [item_num |-> " ", description |-> "Once per lifetime",
      derived_fee |-> None]}

\* the source files
Datasets == UNION {[1..n -> Entries] : n \in 0..MaxItems}

\* _text(elem): `(elem.text or "").strip() or None`, None for no element
\* (mbs_parser.py lines 36-41)
_text(elem) ==
    IF elem = None THEN None
    ELSE IF Strip(elem) = "" THEN None ELSE Strip(elem)

RECURSIVE parse_xml(_, _)
\* parse_xml over the entries k.. of the file: an entry whose item number is
\* empty is skipped, every field is trimmed and None when empty
\* (mbs_parser.py lines 78-94; parse_csv does the same, lines 128-150)
parse_xml(entries, k) ==
    IF k > Len(entries) THEN <<>>
    ELSE (IF _text(entries[k].item_num) = None THEN <<>>
          ELSE <<[item_num |-> _text(entries[k].item_num),
                  description |-> _text(entries[k].description),
                  derived_fee |-> _text(entries[k].derived_fee)]>>)
             \o parse_xml(entries, k + 1)

\* the item records the parser makes of the entries
Records == {parse_xml(<<entry>>, 1)[1] :
               entry \in {e \in Entries : _text(e.item_num) # None}}

\* (time.time() - t0) * 1000 where the clock did not advance between the two
\* readings, or did
Elapsed == {0, 1}

\* `it.get("derived_fee") or None`
OrNone(derived_fee) == IF derived_fee \in Falsy THEN None ELSE derived_fee

\* the arguments the loader passes to the extractors for an item
\* (lines 62-64, 172-174)
ItemArgs(it) ==
    [item_num |-> it.item_num, description |-> OrEmpty(it.description),
     derived_fee |-> OrNone(it.derived_fee)]

\* what the two extractors return for the item records
Extracted ==
    [it \in Records |->
        [relations |-> extract_relations(ItemArgs(it).item_num,
                                         ItemArgs(it).description,
                                         ItemArgs(it).derived_fee),
         constraints |-> extract_constraints(ItemArgs(it).item_num,
                                             ItemArgs(it).description)]]

\* what the two extractors return for each item of a list
ResultsOf(items) == [k \in 1..Len(items) |-> Extracted[items[k]]]

\* rows = new: the list replaced, not extended
Replaced(rows, new) == new

\* rows.extend(new)
Extend(rows, new) == rows \o new

\* to_db_rows(items), the columns item_num, description, derived_fee
to_db_rows(items) ==
    [k \in 1..Len(items) |->
        <<items[k].item_num, items[k].description, items[k].derived_fee>>]

\* CREATE TABLE IF NOT EXISTS of one table (db.py lines 19-58); sqlite
\* commits every DDL statement by itself
create_table(tables, name) ==
    [tables EXCEPT ![name] = IF @ = None THEN <<>> ELSE @]

\* the table kept as it is
NotDropped(tables, name) == tables

\* DROP TABLE IF EXISTS of one table (db.py lines 66-68), committed by
\* itself as well
drop_table(tables, name) == [tables EXCEPT ![name] = None]

\* the statements of reset_db() in their order (db.py lines 65-67): where
\* the run stands before each and the table it drops
DropStatements ==
    <<[at |-> "reset_db", table |-> "constraints"],
      [at |-> "drop_relations", table |-> "relations"],
      [at |-> "drop_items", table |-> "items"]>>

\* the statements of the two calls of init_schema() in their order, the
\* call at the end of reset_db() (db.py line 69) and the call of main()
\* (_loader.py line 149): where the run stands before each and the table it
\* creates (db.py lines 20-58)
CreateStatements ==
    <<[at |-> "create_items", table |-> "items"],
      [at |-> "create_relations", table |-> "relations"],
      [at |-> "create_constraints", table |-> "constraints"],
      [at |-> "init_schema", table |-> "items"],
      [at |-> "init_relations", table |-> "relations"],
      [at |-> "init_constraints", table |-> "constraints"]>>

RECURSIVE Without(_, _, _)
\* the rows of table[r..] whose item_num is not the given one
Without(table, item_num, r) ==
    IF r > Len(table) THEN <<>>
    ELSE (IF table[r][1] = item_num THEN <<>> ELSE <<table[r]>>)
             \o Without(table, item_num, r + 1)

RECURSIVE insert_items(_, _, _)
\* INSERT OR REPLACE of rows[k..]: a row replaces the row of its item_num
insert_items(table, rows, k) ==
    IF k > Len(rows) THEN table
    ELSE insert_items(Without(table, rows[k][1], 1) \o <<rows[k]>>,
                      rows, k + 1)

\* INSERT INTO relations ... executemany over the rows
insert_relations(table, rows) == table \o rows

\* INSERT INTO constraints ... executemany over the rows
insert_constraints(table, rows) == table \o rows

RECURSIVE SumFrom(_, _)
\* sum(description_lengths)
SumFrom(xs, k) == IF k > Len(xs) THEN 0 ELSE xs[k] + SumFrom(xs, k + 1)

\* the float a / b * times, kept as the three integers
Quotient(a, b, times) == [num |-> a, den |-> b, times |-> times]

\* the dict of a Counter over the second field of the rows
PatternCounts(rows) ==
    [t \in {rows[k][2] : k \in 1..Len(rows)} |->
        Cardinality({k \in 1..Len(rows) : rows[k][2] = t})]

RECURSIVE RowsOf(_, _, _)
\* the rows of one extractor in results[k..], in order
RowsOf(results, field, k) ==
    IF k > Len(results) THEN <<>>
    ELSE results[k][field] \o RowsOf(results, field, k + 1)

\* (n / total_items) * 100 if total_items > 0 else 0
Coverage(n, total_items) ==
    IF total_items > 0 THEN Quotient(n, total_items, 100) ELSE 0

\* the dict _analyze_extraction_patterns returns, results being what the two
\* extractors returned for each item (lines 52-119)
Analysis(items, results) ==
    LET total_items == Len(items)
        with_relations == {k \in 1..Len(items) : results[k].relations # <<>>}
        with_constraints ==
            {k \in 1..Len(items) : results[k].constraints # <<>>}
        description_lengths ==
            [k \in 1..Len(items) |-> Len(ItemArgs(items[k]).description)]
        lengths == {description_lengths[k] : k \in 1..Len(items)}
    IN  [total_items |-> total_items,
         items_with_relations |-> Cardinality(with_relations),
         items_with_constraints |-> Cardinality(with_constraints),
         items_with_both |->
             Cardinality(with_relations \cap with_constraints),
         relation_patterns |-> PatternCounts(RowsOf(results, "relations", 1)),
         constraint_patterns |->
             PatternCounts(RowsOf(results, "constraints", 1)),
         description_stats |->
             [avg_length |->
                  IF description_lengths # <<>>
                  THEN Quotient(SumFrom(description_lengths, 1),
                                Len(description_lengths), 1)
                  ELSE 0,
              max_length |->
                  IF description_lengths # <<>>
                  THEN CHOOSE n \in lengths : \A m \in lengths : m <= n
                  ELSE 0,
              min_length |->
                  IF description_lengths # <<>>
                  THEN CHOOSE n \in lengths : \A m \in lengths : n <= m
                  ELSE 0],
         coverage |->
             [relations_coverage |->
                  Coverage(Cardinality(with_relations), total_items),
              constraints_coverage |->
                  Coverage(Cardinality(with_constraints), total_items),
              both_coverage |->
                  Coverage(Cardinality(with_relations \cap with_constraints),
                           total_items)]]

_analyze_extraction_patterns(items) == Analysis(items, ResultsOf(items))

\* one call of a function of the run, as the log keeps it
Called(op, item, rows) == [op |-> op, item |-> item, rows |-> rows]

RECURSIVE AnalysisCalls(_, _)
\* the calls of the two extractors that _analyze_extraction_patterns makes
\* for the items k.. (_loader.py lines 60-68)
AnalysisCalls(results, k) ==
    IF k > Len(results) THEN <<>>
    ELSE <<Called("extract_relations", k, results[k].relations),
           Called("extract_constraints", k, results[k].constraints)>>
             \o AnalysisCalls(results, k + 1)

\* the tables that hold rows, in the order reset_db drops them
Dropped(tables) ==
    LET Held(name) ==
            IF tables[name] = None \/ tables[name] = <<>> THEN <<>>
            ELSE <<name>>
    IN  Held("constraints") \o Held("relations") \o Held("items")

\* main() is started on a source file (lines 122-144); the database is the
\* one the earlier runs left
StartLoad ==
    /\ pc \in {"idle", "done", "failed"}
    /\ main.run_no < MaxRuns
    /\ \E source \in Datasets :
          main' = [NoRun EXCEPT !.run_no = main.run_no + 1,
                                !.source = source]
    /\ log' = <<>>
    /\ pc' = "reset_db"
    /\ UNCHANGED <<api, args, relations, constraints, library, calls, store>>

\* reset_db()  (line 148): one DROP TABLE of db.py lines 66-68 is executed
\* and committed; the call is logged as it begins
ResetDb ==
    /\ \E n \in DOMAIN DropStatements :
          /\ pc = DropStatements[n].at
          /\ store' = drop_table(store, DropStatements[n].table)
          /\ log' = IF n = 1
                    THEN Append(log, Called("reset_db", 0, Dropped(store)))
                    ELSE log
          /\ pc' = IF n < Len(DropStatements) THEN DropStatements[n + 1].at
                   ELSE CreateStatements[1].at
    /\ UNCHANGED <<api, args, relations, constraints, library, calls, main>>

\* init_schema(), called at the end of reset_db() (db.py line 69) and by
\* main() (line 149): one CREATE TABLE IF NOT EXISTS of db.py lines 20-58 is
\* executed and committed; the call of main() is logged as it begins
InitSchema ==
    /\ \E n \in DOMAIN CreateStatements :
          /\ pc = CreateStatements[n].at
          /\ store' = create_table(store, CreateStatements[n].table)
          /\ log' = IF CreateStatements[n].at = "init_schema"
                    THEN Append(log, Called("init_schema", 0, <<>>))
                    ELSE log
          /\ pc' = IF n < Len(CreateStatements) THEN CreateStatements[n + 1].at
                   ELSE "parse"
    /\ UNCHANGED <<api, args, relations, constraints, library, calls, main>>

\* items = parse_xml(...) or parse_csv(...)  (lines 151-156)
Parse ==
    /\ pc = "parse"
    /\ \E parse_time \in Elapsed :
          main' = [main EXCEPT !.items = parse_xml(main.source, 1),
                               !.parse_time = parse_time]
    /\ pc' = "insert_items"
    /\ UNCHANGED <<api, args, relations, constraints, library, calls, store,
                   log>>

\* the exception is caught and the run goes on with the step that follows
Swallowed(following) == following

\* the exception leaves main() uncaught (main() has no try, lines 122-261):
\* the step that follows the failing call is not run, and none after it
Propagated(following) == "failed"

\* the exception of a parser that cannot read the source: open() or
\* etree.parse raises in parse_xml (mbs_parser.py lines 70-71), parse_csv
\* raises FileNotFoundError (lines 103-104)
ParseError == "<FileNotFoundError or XMLSyntaxError>"

\* the exception sqlite raises when it cannot write a batch
DatabaseError == "<sqlite3.OperationalError: database or disk is full>"

\* the parser raises  (line 154)
ParseRaises ==
    /\ pc = "parse"
    /\ main' = [main EXCEPT !.error = ParseError, !.failed_at = pc]
    /\ pc' = Propagated("insert_items")
    /\ UNCHANGED <<api, args, relations, constraints, library, calls, store,
                   log>>

\* insert_items(to_db_rows(items)); the two batches start empty
\* (lines 158-169)
InsertItems ==
    /\ pc = "insert_items"
    /\ store' = [store EXCEPT
                    !.items = insert_items(store.items,
                                           to_db_rows(main.items), 1)]
    /\ log' = Append(log, Called("insert_items", 0, to_db_rows(main.items)))
    /\ \E insert_time \in Elapsed :
          main' = [main EXCEPT !.insert_time = insert_time,
                               !.rel_rows = <<>>, !.con_rows = <<>>,
                               !.i = 1]
    /\ pc' = "extract"
    /\ UNCHANGED <<api, args, relations, constraints, library, calls>>

\* the body of the loop, out being what the two extractors return for the
\* item  (lines 175-176)
Extracting(out) ==
    /\ main' = [main EXCEPT
                   !.rel_rows = Extend(main.rel_rows, out.relations),
                   !.con_rows = Extend(main.con_rows, out.constraints),
                   !.i = main.i + 1]
    /\ log' = log \o <<Called("extract_relations", main.i, out.relations),
                       Called("extract_constraints", main.i, out.constraints)>>

\* one turn of `for it in items:`  (lines 171-176)
ExtractItem ==
    /\ pc = "extract"
    /\ main.i <= Len(main.items)
    /\ Extracting(Extracted[main.items[main.i]])
    /\ UNCHANGED <<api, args, relations, constraints, library, calls, pc,
                   store>>

\* the loop is over  (lines 178-181)
EndExtract ==
    /\ pc = "extract"
    /\ main.i > Len(main.items)
    /\ \E extraction_time \in Elapsed :
          main' = [main EXCEPT !.extraction_time = extraction_time]
    /\ pc' = "insert_relations"
    /\ UNCHANGED <<api, args, relations, constraints, library, calls, store,
                   log>>

\* insert_relations(rel_rows)  (lines 183-186)
InsertRelations ==
    /\ pc = "insert_relations"
    /\ store' = [store EXCEPT
                    !.relations =
                        insert_relations(store.relations, main.rel_rows)]
    /\ log' = Append(log, Called("insert_relations", 0, main.rel_rows))
    /\ pc' = "insert_constraints"
    /\ UNCHANGED <<api, args, relations, constraints, library, calls, main>>

\* insert_constraints(con_rows)  (lines 187-189)
InsertConstraints ==
    /\ pc = "insert_constraints"
    /\ store' = [store EXCEPT
                    !.constraints =
                        insert_constraints(store.constraints, main.con_rows)]
    /\ log' = Append(log, Called("insert_constraints", 0, main.con_rows))
    /\ \E insert_relcon_time \in Elapsed :
          main' = [main EXCEPT !.insert_relcon_time = insert_relcon_time]
    /\ pc' = "analyze"
    /\ UNCHANGED <<api, args, relations, constraints, library, calls>>

\* analysis = _analyze_extraction_patterns(items)  (lines 191-192): both
\* extractors are called on every item once more
Analyze ==
    /\ pc = "analyze"
    /\ main' = [main EXCEPT
                   !.analysis = _analyze_extraction_patterns(main.items)]
    /\ log' = log \o AnalysisCalls(ResultsOf(main.items), 1)
    /\ pc' = "report"
    /\ UNCHANGED <<api, args, relations, constraints, library, calls, store>>

\* the metrics are logged  (lines 194-232)
Report ==
    /\ pc = "report"
    /\ pc' = "insert_meta"
    /\ UNCHANGED <<api, args, relations, constraints, library, calls, main,
                   store, log>>

\* len(items), len(rel_rows), len(con_rows) as insert_meta is given them
Counts(run) == <<Len(run.items), Len(run.rel_rows), Len(run.con_rows)>>

\* insert_meta(src_path, hash, len(items), len(rel_rows), len(con_rows), now)
\* (lines 234-244).  insert_meta is among the names main() imports (line 12)
\* and src/src/db.py defines no insert_meta: the call is taken as main()
\* writes it, given the three counts, and as leaving the tables of items,
\* relations and constraints as they are
InsertMeta ==
    /\ pc = "insert_meta"
    /\ log' = Append(log, Called("insert_meta", 0, Counts(main)))
    /\ pc' = "summary"
    /\ UNCHANGED <<api, args, relations, constraints, library, calls, main,
                   store>>

\* the calls of main() that write a batch to the database: where the run
\* stands before each, where after it, and what the call is given
\* (lines 161, 186, 187 and 237-244)
Writes ==
    <<[at |-> "insert_items", following |-> "extract"],
      [at |-> "insert_relations", following |-> "insert_constraints"],
      [at |-> "insert_constraints", following |-> "analyze"],
      [at |-> "insert_meta", following |-> "summary"]>>
Batch(at, run) ==
    CASE at = "insert_items" -> to_db_rows(run.items)
      [] at = "insert_relations" -> run.rel_rows
      [] at = "insert_constraints" -> run.con_rows
      [] at = "insert_meta" -> Counts(run)

\* a call that writes a batch raises: executemany raises before
\* conn.commit() and get_conn closes the connection, which rolls the
\* statement back (db.py lines 8-14, 72-110)
WriteRaises ==
    /\ \E n \in DOMAIN Writes :
          /\ pc = Writes[n].at
          /\ log' = Append(log, Called(pc, 0, Batch(pc, main)))
          /\ pc' = Propagated(Writes[n].following)
    /\ main' = [main EXCEPT !.error = DatabaseError, !.failed_at = pc]
    /\ UNCHANGED <<api, args, relations, constraints, library, calls, store>>

\* total_time = parse_time + insert_time + extraction_time + insert_relcon_time
total_time(run) ==
    run.parse_time + run.insert_time + run.extraction_time
        + run.insert_relcon_time

\* the rates are len(...) / (total_time / 1000) and the summary is printed
\* (lines 246-261); the division raises when total_time is 0
Summary ==
    /\ pc = "summary"
    /\ IF total_time(main) = 0
       THEN /\ main' = [main EXCEPT !.error = "ZeroDivisionError",
                                     !.failed_at = pc]
            /\ pc' = "failed"
       ELSE /\ pc' = "done"
            /\ UNCHANGED main
    /\ UNCHANGED <<api, args, relations, constraints, library, calls, store,
                   log>>

InitLoad ==
    /\ args = [fn |-> "extract_relations", item_num |-> "23",
               description |-> "", derived_fee |-> None]
    /\ relations = NotCalled
    /\ constraints = NotCalled
    /\ library = PatternLibrary
    /\ history = <<>>
    /\ threads = NoThreads
    /\ NoLoad
    /\ api = NoRequest

NextLoad ==
    \/ StartLoad
    \/ ResetDb
    \/ InitSchema
    \/ Parse
    \/ ParseRaises
    \/ InsertItems
    \/ ExtractItem
    \/ EndExtract
    \/ InsertRelations
    \/ InsertConstraints
    \/ Analyze
    \/ Report
    \/ InsertMeta
    \/ WriteRaises
    \/ Summary

SpecLoad == InitLoad /\ [][NextLoad]_vars

(***************************************************************************)
(* The API: get_items of src/api/main.py (GET /api/items?codes=...) over   *)
(* fetch_item_aggregate of src/src/db.py.  The answer is the HTTP status   *)
(* and the JSON body; the body of an error is its detail.  get_items is a  *)
(* coroutine that never awaits, so the API handles one request at a time;  *)
(* fetch_item_aggregate opens a connection for each code and reads the     *)
(* three tables with three statements, between which a load run of another *)
(* process may write.                                                      *)
(***************************************************************************)
\* s[a..b], empty when a > b
Piece(s, a, b) == IF a > b THEN "" ELSE SubSeq(s, a, b)

RECURSIVE SplitAt(_, _, _)
\* codes.split(","): the pieces of s from position from on, i the position
\* read next
SplitAt(s, i, from) ==
    IF i > Len(s) THEN <<Piece(s, from, Len(s))>>
    ELSE IF SubSeq(s, i, i) = ","
         THEN <<Piece(s, from, i - 1)>> \o SplitAt(s, i + 1, i + 1)
         ELSE SplitAt(s, i + 1, from)

RECURSIVE Stripped(_, _)
\* [code.strip() for code in pieces if code.strip()]
Stripped(pieces, k) ==
    IF k > Len(pieces) THEN <<>>
    ELSE (IF Strip(pieces[k]) = "" THEN <<>> ELSE <<Strip(pieces[k])>>)
             \o Stripped(pieces, k + 1)

\* code_list of get_items
CodeList(codes) == Stripped(SplitAt(codes, 1, 1), 1)

RECURSIVE RowsFor(_, _, _)
\* SELECT ... WHERE item_num = ?: the rows of table[r..] of the item
RowsFor(table, item_num, r) ==
    IF r > Len(table) THEN <<>>
    ELSE (IF table[r][1] = item_num THEN <<table[r]>> ELSE <<>>)
             \o RowsFor(table, item_num, r + 1)

\* the SELECT statements of fetch_item_aggregate in their order (db.py
\* lines 116-127): where the request stands before each and the table read
Selects ==
    <<[at |-> "select_items", table |-> "items"],
      [at |-> "select_relations", table |-> "relations"],
      [at |-> "select_constraints", table |-> "constraints"]>>

\* the dict get_items builds for an item that exists (lines 283-311)
Aggregate(data) ==
    [item |-> [item_num |-> data.item_row[1],
               description |-> data.item_row[2],
               derived_fee |-> data.item_row[3]],
     relations |->
         [r \in 1..Len(data.rel_rows) |->
             [relation_type |-> data.rel_rows[r][2],
              target_item_num |-> data.rel_rows[r][3],
              detail |-> data.rel_rows[r][4]]],
     constraints |->
         [r \in 1..Len(data.con_rows) |->
             [constraint_type |-> data.con_rows[r][2],
              value |-> data.con_rows[r][3]]]]

\* an HTTPException
HTTPException(status_code, detail) ==
    [status |-> status_code, body |-> [detail |-> detail]]

\* the request is answered
Answer(codes, response) ==
    [NoRequest EXCEPT !.codes = codes, !.status = response.status,
                      !.body = response.body]

\* what get_items answers after the loop (lines 319-322)
Response(items) ==
    IF items = <<>> THEN HTTPException(404, "No items found")
    ELSE [status |-> 200, body |-> [items |-> items]]

\* the loop over code_list goes on after code k: to the next code, or to the
\* answer when k was the last (lines 274, 319-322)
NextCode(codes, k, items) ==
    IF k < Len(CodeList(codes))
    THEN [NoRequest EXCEPT !.at = Selects[1].at, !.pending = codes,
                           !.k = k + 1, !.items = items]
    ELSE Answer(codes, Response(items))

\* the tables after a completed load of the items
Loaded(items) ==
    [items |-> insert_items(<<>>, to_db_rows(items), 1),
     relations |-> RowsOf(ResultsOf(items), "relations", 1),
     constraints |-> RowsOf(ResultsOf(items), "constraints", 1)]

\* the values of the codes parameter
CodesParams ==
    {"", ",", " , ", "23", "999,888", "23,999,36", " 44 ,23", "36,36,",
     "999", "44"}

\* GET /api/items?codes=... arrives: a parameter that holds no code is
\* answered 400, otherwise the loop over code_list begins (lines 263-274)
GetItems ==
    /\ api.at = "idle"
    /\ \E codes \in CodesParams :
          api' = IF codes = ""
                 THEN Answer(codes, HTTPException(400, "No codes provided"))
                 ELSE IF CodeList(codes) = <<>>
                      THEN Answer(codes,
                                  HTTPException(400, "No valid codes provided"))
                      ELSE [NoRequest EXCEPT !.at = Selects[1].at,
                                             !.pending = codes]
    /\ UNCHANGED <<args, relations, constraints, library, calls, loader>>

\* the request after statement n of fetch_item_aggregate read the rows of
\* the code: the third statement ends the fetch, and an item is appended
\* when the item row exists (db.py lines 116-128, main.py lines 277-313)
Fetched(request, n, rows) ==
    CASE n = 1 -> [request EXCEPT !.at = Selects[2].at,
                                  !.item_row = IF rows = <<>> THEN None
                                               ELSE rows[1]]
      [] n = 2 -> [request EXCEPT !.at = Selects[3].at, !.rel_rows = rows]
      [] n = 3 -> NextCode(request.pending, request.k,
                           IF request.item_row = None THEN request.items
                           ELSE Append(request.items,
                                       Aggregate([item_row |-> request.item_row,
                                                  rel_rows |-> request.rel_rows,
                                                  con_rows |-> rows])))

\* one statement of fetch_item_aggregate(code) for the code at k is
\* executed; when its table does not exist it raises, get_items catches the
\* exception and goes on with the next code (lines 315-317)
FetchItemAggregate ==
    /\ \E n \in DOMAIN Selects :
          /\ api.at = Selects[n].at
          /\ api' = IF store[Selects[n].table] = None
                    THEN NextCode(api.pending, api.k, api.items)
                    ELSE Fetched(api, n,
                                 RowsFor(store[Selects[n].table],
                                         CodeList(api.pending)[api.k], 1))
    /\ UNCHANGED <<args, relations, constraints, library, calls, loader>>

\* the source file of the one load run that another process makes while the
\* API is up
ConcurrentSource ==
    <<[item_num |-> "23",
       description |-> "not on the same day as item 36 (a) taking a history;",
       derived_fee |-> None],
      [item_num |-> "36", description |-> None, derived_fee |-> "item 23"]>>

\* a step of that load run
ConcurrentLoad ==
    /\ NextLoad
    /\ main'.source = ConcurrentSource
    /\ main'.run_no = 1

\* the API is up over a database that was never loaded or over the database
\* a completed load left
InitApi ==
    /\ args = [fn |-> "extract_relations", item_num |-> "23",
               description |-> "", derived_fee |-> None]
    /\ relations = NotCalled
    /\ constraints = NotCalled
    /\ library = PatternLibrary
    /\ history = <<>>
    /\ threads = NoThreads
    /\ pc = "idle"
    /\ main = NoRun
    /\ log = <<>>
    /\ \/ store = NoTables
       \/ store \in {Loaded(parse_xml(source, 1)) : source \in Datasets}
    /\ api = NoRequest

NextApi ==
    \/ GetItems
    \/ FetchItemAggregate
    \/ ConcurrentLoad

SpecApi == InitApi /\ [][NextApi]_vars

(***************************************************************************)
(* extract_relations on descriptions in which relationship phrases stand   *)
(* near each other and near numbers that are no item numbers.              *)
(***************************************************************************)
MaxMentions == 2

MentionFragments ==
    {"not on the same day as item 36 ",
     "may be claimed on the same day as item 106 ",
     "other than a service to which item 44 applies ",
     "following referral ", "after the initial attendance ",
     "lasting at least 20 minutes ", "for a patient aged 65 years ",
     "within 12 months "}

MentionCalls ==
    [fn : {"extract_relations"}, item_num : ItemNums,
     description : TextsOver(MentionFragments, MaxMentions),
     derived_fee : {None}]

InitMentions ==
    /\ args \in MentionCalls
    /\ relations = NotCalled
    /\ constraints = NotCalled
    /\ library = PatternLibrary
    /\ history = <<>>
    /\ threads = NoThreads
    /\ NoLoad
    /\ api = NoRequest

NextMentions == ExtractRelations

SpecMentions == InitMentions /\ [][NextMentions]_vars

(***************************************************************************)
(* Properties of the two extractors.                                       *)
(***************************************************************************)
Elements(xs) == {xs[k] : k \in 1..Len(xs)}

\* group 1 of every ITEM_LIST_PATTERN match of a description
ListSegments(description) ==
    FindIter(ITEM_LIST_PATTERN, Prepared(OrEmpty(description)))

\* the numbers of the single item mentions of a derived fee text
FeeMentions(derived_fee) ==
    IF derived_fee = None THEN <<>>
    ELSE FindIter(SINGLE_ITEM_PATTERN, Prepared(derived_fee))

\* C1: no relation returned by extract_relations has the source item's own
\* number as its target, while every other number of an item list or of a
\* derived fee text that mentions the own number is still a target.
NoSelfReference ==
    relations # NotCalled =>
        /\ \A k \in 1..Len(relations) : relations[k][3] # args.item_num
        /\ \A segment \in Elements(ListSegments(args.description)) :
              \A n \in Elements(FindItemNumbers(segment)) \ {args.item_num} :
                  <<args.item_num, "excludes", n, "items list">>
                      \in Elements(relations)
        /\ \A n \in Elements(FeeMentions(args.derived_fee)) \ {args.item_num} :
              <<args.item_num, "derived_fee_ref", n, "derived fee">>
                  \in Elements(relations)

\* a call has returned whose description lists the item's own number among
\* other numbers
SelfListedAmongOthers ==
    /\ relations # NotCalled
    /\ \E segment \in Elements(ListSegments(args.description)) :
          /\ args.item_num \in Elements(FindItemNumbers(segment))
          /\ Elements(FindItemNumbers(segment)) \ {args.item_num} # {}
    /\ relations # <<>>

\* the first index of x in xs
FirstIndex(xs, x) ==
    CHOOSE i \in 1..Len(xs) : xs[i] = x /\ \A j \in 1..(i - 1) : xs[j] # x

\* out holds every tuple of emitted once, in the order of first emission
FirstSeenOrder(out, emitted) ==
    /\ \A i, j \in 1..Len(out) : i # j => out[i] # out[j]
    /\ Elements(out) = Elements(emitted)
    /\ \A i, j \in 1..Len(out) :
          i < j => FirstIndex(emitted, out[i]) < FirstIndex(emitted, out[j])

\* C2: each extractor returns every tuple it emitted exactly once, in the
\* order in which the tuples were first emitted; tuples that differ in a
\* component are all kept.
DeduplicatedInFirstSeenOrder ==
    /\ relations # NotCalled =>
          FirstSeenOrder(relations,
                         EmittedRelations(library, args.item_num,
                                          args.description, args.derived_fee))
    /\ constraints # NotCalled =>
          FirstSeenOrder(constraints,
                         EmittedConstraints(library, args.item_num,
                                            args.description))

\* a call has returned that emitted some relation more than once and two
\* different relations
RepeatedRelationEmitted ==
    /\ relations # NotCalled
    /\ Len(EmittedRelations(library, args.item_num, args.description,
                            args.derived_fee)) > Len(relations)
    /\ Len(relations) >= 2

\* what each call gives when no other call runs in the process
Alone ==
    [call \in RepeatedCalls |->
        IF call.fn = "extract_relations"
        THEN extract_relations(call.item_num, call.description,
                               call.derived_fee)
        ELSE extract_constraints(call.item_num, call.description)]

\* C3: a call returns what every other call on the same arguments returned,
\* which is what the call gives when it runs alone, whatever calls ran
\* before it, between the two or at the same time in another thread; and
\* the pattern library stays as it was initialised.
SameArgumentsSameResult ==
    /\ \A i, j \in 1..Len(history) :
          history[i].call = history[j].call
              => history[i].result = history[j].result
    /\ \A i \in 1..Len(history) : history[i].result = Alone[history[i].call]
    /\ library = PatternLibrary

\* C3 witness: a call is repeated, and while the repetition was under way in
\* one thread, a call on other arguments returned in the other; both
\* returned something.
RepeatedWhileAnotherCallRan ==
    \E i, k, j \in 1..Len(history) :
        /\ i < j
        /\ history[i].call = history[j].call
        /\ history[j].began < k /\ k < j
        /\ history[k].call # history[j].call
        /\ \A n \in {k, j} :
              history[n].result # TypeError /\ Len(history[n].result) > 0

\* C4 as stated: with description None or "" both extractors return the empty
\* list, whatever the derived fee.
EmptyDescriptionYieldsNothing ==
    args.description \in {None, ""} =>
        /\ relations # NotCalled => relations = <<>>
        /\ constraints # NotCalled => constraints = <<>>

\* C4 (amended): with description None or "" extract_constraints returns the
\* empty list and extract_relations returns nothing but the derived_fee_ref
\* relations of the item mentions of the derived fee: the empty list when the
\* derived fee is None or "" or mentions no item but the source.
EmptyDescriptionYieldsFeeReferencesOnly ==
    args.description \in {None, ""} =>
        /\ constraints # NotCalled => constraints = <<>>
        /\ relations # NotCalled =>
              /\ \A r \in Elements(relations) :
                    /\ r[1] = args.item_num
                    /\ r[2] = "derived_fee_ref"
                    /\ r[4] = "derived fee"
              /\ {r[3] : r \in Elements(relations)}
                    = Elements(FeeMentions(args.derived_fee)) \ {args.item_num}
              /\ args.derived_fee \in {None, ""} => relations = <<>>

\* extract_relations has returned a relation for an absent description
FeeReferenceOfEmptyDescription ==
    /\ args.description = None
    /\ relations # NotCalled
    /\ relations # <<>>

\* the phrase lists read with a window, each with the type of its relations
WindowedLists ==
    {[phrases |-> library.EXCLUDE_PHRASES, type |-> "excludes"],
     [phrases |-> library.SAME_DAY_EXCLUDE_PHRASES, type |-> "same_day_excludes"],
     [phrases |-> library.ALLOW_SAME_DAY_PHRASES, type |-> "allows_same_day"],
     [phrases |-> library.PREREQ_PHRASES, type |-> "prerequisite"]}

\* the 0-based positions at which a phrase stands in the prepared text
Occurrences(t, phrase) ==
    {i - 1 : i \in {j \in UNION {PositionsOf(t, Ch(phrase.alts[a], 1)) :
                                     a \in 1..Len(phrase.alts)} :
                       \E a \in 1..Len(phrase.alts) :
                           LitAt(t.low, j, phrase.alts[a])}}

\* the item-number tokens of a text: [at |-> 0-based start, num |-> digits]
Tokens(t) ==
    {[at |-> i - 1, num |-> SubSeq(t.text, i, i + ITEM_NUMBER(t.text, i) - 1)] :
        i \in {j \in UNION {PositionsOf(t, d) : d \in Digits} :
                  ITEM_NUMBER(t.text, j) > 0}}

\* the characters [at, at + len) lie within 120 characters of the anchor
Within120(anchor, at, len) ==
    /\ at >= anchor - 120
    /\ at + len <= anchor + 120

\* the characters [at, at + len) lie wholly outside that window
Outside120(anchor, at, len) ==
    \/ at + len <= anchor - 120
    \/ at >= anchor + 120

\* C5: every item-number token other than the source number that lies within
\* 120 characters before or after the start of a match of a phrase of a
\* windowed list yields a relation of the list's type with the phrase as
\* source_phrase; and the target of every such relation stands within that
\* window of some match of the phrase, so a token wholly outside the window
\* yields none from that match.
WindowedScan ==
    relations # NotCalled =>
        LET t == Prepared(OrEmpty(args.description))
            tokens == Tokens(t)
        IN  \A L \in WindowedLists : \A k \in 1..Len(L.phrases) :
              LET phrase == L.phrases[k]
                  occ == Occurrences(t, phrase)
              IN  /\ \A a \in occ : \A tok \in tokens :
                        (Within120(a, tok.at, Len(tok.num))
                            /\ tok.num # args.item_num)
                        => <<args.item_num, L.type, tok.num, phrase.pattern>>
                               \in Elements(relations)
                  /\ \A r \in Elements(relations) :
                        (r[2] = L.type /\ r[4] = phrase.pattern)
                        => \E a \in occ : \E j \in 1..Len(t.text) :
                              /\ Within120(a, j - 1, Len(r[3]))
                              /\ LitAt(t.text, j, r[3])

\* a call has returned for a description in which one token stands within
\* the window of a phrase match and has its relation, and another stands
\* wholly outside and has none
TokenInsideAndTokenOutside ==
    /\ relations # NotCalled
    /\ LET t == Prepared(OrEmpty(args.description))
           tokens == Tokens(t)
       IN  \E L \in WindowedLists : \E k \in 1..Len(L.phrases) :
             \E a \in Occurrences(t, L.phrases[k]) :
               /\ \E tok \in tokens :
                     /\ Within120(a, tok.at, Len(tok.num))
                     /\ <<args.item_num, L.type, tok.num, L.phrases[k].pattern>>
                            \in Elements(relations)
               /\ \E tok \in tokens :
                     /\ Outside120(a, tok.at, Len(tok.num))
                     /\ tok.num # args.item_num
                     /\ <<args.item_num, L.type, tok.num, L.phrases[k].pattern>>
                            \notin Elements(relations)

\* the numbers of a list segment other than the source, repetitions dropped
Listed(segment, item_num) ==
    SelectSeq(Dedup(FindItemNumbers(segment)), LAMBDA n : n # item_num)

\* the index in the returned relations of the 'items list' relation to n
ListRelationAt(n) ==
    {k \in 1..Len(relations) :
        relations[k] = <<args.item_num, "excludes", n, "items list">>}

\* every listed number of every list has its 'items list' relation once
EveryListedNumberOnce ==
    \A segment \in Elements(ListSegments(args.description)) :
        \A n \in Elements(Listed(segment, args.item_num)) :
            Cardinality(ListRelationAt(n)) = 1

\* C6 as stated: for every item list of the description the relations
\* (source, 'excludes', Ni, 'items list') of its numbers other than the source
\* are returned, each once and in the order of first appearance in the list.
ListExpandedInListOrder ==
    relations # NotCalled =>
        /\ EveryListedNumberOnce
        /\ \A segment \in Elements(ListSegments(args.description)) :
              LET ns == Listed(segment, args.item_num)
              IN  \A i, j \in 1..Len(ns) :
                      i < j => \A x \in ListRelationAt(ns[i]) :
                               \A y \in ListRelationAt(ns[j]) : x < y

RECURSIVE ListedByAll(_, _, _)
\* the numbers of all the lists, in the order of the text
ListedByAll(segments, item_num, i) ==
    IF i > Len(segments) THEN <<>>
    ELSE Listed(segments[i], item_num) \o ListedByAll(segments, item_num, i + 1)

\* C6 (amended): for every item list of the description the relations
\* (source, 'excludes', Ni, 'items list') of its numbers other than the source
\* are returned, each once; the 'items list' relations stand in the order in
\* which their numbers first appear in the lists of the description, so a
\* number already listed by an earlier list keeps its earlier place.
ListExpandedInFirstAppearanceOrder ==
    relations # NotCalled =>
        /\ EveryListedNumberOnce
        /\ LET all == ListedByAll(ListSegments(args.description),
                                  args.item_num, 1)
           IN  \A m, n \in Elements(all) :
                   FirstIndex(all, m) < FirstIndex(all, n)
                   => \A x \in ListRelationAt(m) :
                      \A y \in ListRelationAt(n) : x < y

\* a call has returned for a description with two lists, the later of which
\* names two numbers other than the source, one of them for the second time
TwoListsSharingANumber ==
    /\ relations # NotCalled
    /\ LET segments == ListSegments(args.description)
       IN  /\ Len(segments) >= 2
           /\ Len(Listed(segments[2], args.item_num)) >= 2
           /\ Elements(Listed(segments[1], args.item_num))
                 \cap Elements(Listed(segments[2], args.item_num)) # {}

\* C7: a returned relation has the target None exactly if its type is
\* generic_excludes, and every generic exclusion phrase standing in the
\* description yields its relation with target None, item numbers next to it
\* or not.
NullTargetIffGeneric ==
    relations # NotCalled =>
        /\ \A r \in Elements(relations) :
              (r[3] = None) <=> (r[2] = "generic_excludes")
        /\ \A k \in 1..Len(library.GENERIC_EXCLUDE_PHRASES) :
              LET phrase == library.GENERIC_EXCLUDE_PHRASES[k]
              IN  Occurrences(Prepared(OrEmpty(args.description)), phrase) # {}
                  => <<args.item_num, "generic_excludes", None, phrase.pattern>>
                         \in Elements(relations)

\* a call has returned a generic exclusion for a description that has an
\* item number within the window of the generic phrase
GenericPhraseBesideNumber ==
    /\ relations # NotCalled
    /\ LET t == Prepared(OrEmpty(args.description))
       IN  \E k \in 1..Len(library.GENERIC_EXCLUDE_PHRASES) :
             \E a \in Occurrences(t, library.GENERIC_EXCLUDE_PHRASES[k]) :
               \E tok \in Tokens(t) :
                 /\ Within120(a, tok.at, Len(tok.num))
                 /\ tok.num # args.item_num
    /\ \E r \in Elements(relations) : r[3] = None

(***************************************************************************)
(* Duration phrases as the text shows them, written with single spaces and *)
(* read in the lower-cased description: a quantity is the position of a    *)
(* phrase "<before>N<after>" standing between word boundaries and its N.   *)
(***************************************************************************)
RECURSIVE DigitsAt(_, _)
\* the digits standing at position i of s, "" if there is none
DigitsAt(s, i) ==
    IF IsDigit(Ch(s, i)) THEN Ch(s, i) \o DigitsAt(s, i + 1) ELSE ""

Quantities(low, before, after) ==
    {[at |-> j, num |-> DigitsAt(low, j + Len(before))] :
        j \in {i \in 1..Len(low) :
                 /\ IsDigit(Ch(low, i + Len(before)))
                 /\ WordBoundary(low, i)
                 /\ LitAt(low, i, before)
                 /\ LET end == i + Len(before)
                                 + Len(DigitsAt(low, i + Len(before)))
                    IN  /\ LitAt(low, end, after)
                        /\ WordBoundary(low, end + Len(after))}}

\* the quantities that stand first in the text
Leftmost(qs) == {q \in qs : \A p \in qs : q.at <= p.at}

AtLeastMinutes(low) == Quantities(low, "at least ", " minutes")

\* approximately N minutes, about N minutes, N minutes or more
OtherLowerBounds(low) ==
    UNION {Quantities(low, "approximately ", m) \cup Quantities(low, "about ", m)
               \cup Quantities(low, "", m \o " or more") :
           m \in {" minutes", " minute"}}

\* less than N minutes, up to N minutes, no more than N minutes
QualifiedUpperBounds(low) ==
    UNION {Quantities(low, w, " minutes") :
           w \in {"less than ", "up to ", "no more than "}}

OrLessMinutes(low) ==
    Quantities(low, "", " minutes or less") \cup Quantities(low, "", " minute or less")

\* the separators of a range: to, a hyphen, an en dash
RangeSeparators == {" to ", "-", "~"}

\* the ranges "A<sep>B minutes": the position, A and B of each
Ranges(low) ==
    LET SecondAt(i, sep) == i + Len(DigitsAt(low, i)) + Len(sep)
        IsRange(i, sep, m) ==
            /\ IsDigit(Ch(low, i))
            /\ WordBoundary(low, i)
            /\ LitAt(low, i + Len(DigitsAt(low, i)), sep)
            /\ IsDigit(Ch(low, SecondAt(i, sep)))
            /\ LET end == SecondAt(i, sep)
                            + Len(DigitsAt(low, SecondAt(i, sep)))
               IN  /\ LitAt(low, end, m)
                   /\ WordBoundary(low, end + Len(m))
    IN  UNION {{[at |-> i, min |-> DigitsAt(low, i),
                 max |-> DigitsAt(low, SecondAt(i, sep))] :
                   i \in {k \in 1..Len(low) : IsRange(k, sep, m)}} :
               sep \in RangeSeparators, m \in {" minutes", " minute"}}

\* H hours or H hour after the words before
Hours(low, before) ==
    Quantities(low, before, " hours") \cup Quantities(low, before, " hour")

\* str(int(H) * 60)
SixtyTimes(num) == StrOf(60 * IntOf(num, Len(num)))

\* the description contains the words
Contains(description, words) ==
    \E i \in 1..Len(OrEmpty(description)) : LitAt(OrEmpty(description), i, words)

\* the returned constraints hold (item, type, value)
Yields(type, value) ==
    <<args.item_num, type, value>> \in Elements(constraints)

\* C8: the first 'at least N minutes' and every 'approximately N minutes',
\* 'about N minutes' and 'N minutes or more' yield (item,
\* duration_min_minutes, N); the first 'less than / up to / no more than N
\* minutes' and every 'N minutes or less' yield (item, duration_max_minutes,
\* N); no maximum is returned but for an upper-bound phrase or a range, no
\* minimum but for a lower-bound phrase, a range or an hour quantity; so a
\* description with one lower-bound and one upper-bound phrase yields both.
DurationBoundMapping ==
    constraints # NotCalled =>
        LET low == Lower(OrEmpty(args.description))
            lower == AtLeastMinutes(low) \cup OtherLowerBounds(low)
            upper == QualifiedUpperBounds(low) \cup OrLessMinutes(low)
            ranges == Ranges(low)
        IN  /\ \A q \in Leftmost(AtLeastMinutes(low)) \cup OtherLowerBounds(low) :
                  Yields("duration_min_minutes", q.num)
            /\ \A q \in Leftmost(QualifiedUpperBounds(low)) \cup OrLessMinutes(low) :
                  Yields("duration_max_minutes", q.num)
            /\ \A c \in Elements(constraints) :
                  /\ c[2] = "duration_max_minutes" =>
                        \/ \E q \in upper : c[3] = q.num
                        \/ \E r \in ranges : c[3] = r.max
                  /\ c[2] = "duration_min_minutes" =>
                        \/ \E q \in lower : c[3] = q.num
                        \/ \E r \in ranges : c[3] = r.min
                        \/ \E h \in Hours(low, "") : c[3] = SixtyTimes(h.num)
            /\ \A l \in lower : \A u \in upper :
                  (lower = {l} /\ upper = {u})
                  => /\ Yields("duration_min_minutes", l.num)
                     /\ Yields("duration_max_minutes", u.num)

\* extract_constraints has returned for a description with one lower-bound
\* and one upper-bound phrase
LowerAndUpperBoundReturned ==
    /\ constraints # NotCalled
    /\ Contains(args.description,
                "lasting at least 6 minutes and less than 20 minutes")
    /\ Len(constraints) = 2

\* C9 as stated: the first range 'A<sep>B minutes' of a description, <sep>
\* being 'to', a hyphen or an en dash, yields (item, duration_min_minutes, A)
\* and (item, duration_max_minutes, B); 'lasting at least 1 hour and 45-60
\* minutes' written with an en dash yields the minima 60 and 45 and the
\* maximum 60.
RangeYieldsMinAndMax ==
    constraints # NotCalled =>
        LET low == Lower(OrEmpty(args.description))
        IN  /\ \A r \in Leftmost(Ranges(low)) :
                  /\ Yields("duration_min_minutes", r.min)
                  /\ Yields("duration_max_minutes", r.max)
            /\ Contains(args.description,
                        "lasting at least 1 hour and 45~60 minutes")
                  => /\ Yields("duration_min_minutes", "60")
                     /\ Yields("duration_min_minutes", "45")
                     /\ Yields("duration_max_minutes", "60")

\* the hour quantities under an upper-bound qualifier
QualifiedUpperHours(low) ==
    UNION {Hours(low, w) : w \in {"less than ", "up to ", "no more than "}}

\* C10 as stated: 'at least H hour(s)' yields duration_min_minutes = 60*H; an
\* hour quantity under 'up to', 'less than' or 'no more than' yields
\* duration_max_minutes = 60*H, and no duration_min_minutes = 60*H unless a
\* lower-bound phrase of the description gives that value.
HoursKeepBoundDirection ==
    constraints # NotCalled =>
        LET low == Lower(OrEmpty(args.description))
            atLeast == Hours(low, "at least ")
        IN  /\ \A h \in atLeast :
                  Yields("duration_min_minutes", SixtyTimes(h.num))
            /\ \A h \in QualifiedUpperHours(low) :
                  /\ Yields("duration_max_minutes", SixtyTimes(h.num))
                  /\ Yields("duration_min_minutes", SixtyTimes(h.num))
                        => \/ \E g \in atLeast :
                                SixtyTimes(g.num) = SixtyTimes(h.num)
                           \/ \E q \in AtLeastMinutes(low)
                                        \cup OtherLowerBounds(low) :
                                q.num = SixtyTimes(h.num)

(***************************************************************************)
(* Frequencies and cooldowns as the text shows them.                       *)
(***************************************************************************)
\* the phrases 'every N days' and 'every N day' of the lower-cased text
EveryNDays(low) ==
    Quantities(low, "every ", " days") \cup Quantities(low, "every ", " day")

\* C11 as stated: every 'every N day(s)' yields max_per_window '1/week' for
\* N = 7, '1/2weeks' for N = 14 and '1/Ndays', N as written, for every other
\* positive integer N, N = 1 included.
EveryNDaysInWeeksOrDays ==
    constraints # NotCalled =>
        \A q \in EveryNDays(Lower(OrEmpty(args.description))) :
            Yields("max_per_window",
                   IF IntOf(q.num, Len(q.num)) = 7 THEN "1/week"
                   ELSE IF IntOf(q.num, Len(q.num)) = 14 THEN "1/2weeks"
                   ELSE "1/" \o q.num \o "days")

\* C11 (amended): every 'every N day(s)' yields max_per_window '1/week' when
\* N is written 7, '1/2weeks' when N is written 14, '1/day' when N is written
\* 1, and '1/Ndays' for every other numeral N as written in the text.
EveryNDaysCanonical ==
    constraints # NotCalled =>
        \A q \in EveryNDays(Lower(OrEmpty(args.description))) :
            Yields("max_per_window",
                   CASE q.num = "7" -> "1/week"
                     [] q.num = "14" -> "1/2weeks"
                     [] q.num = "1" -> "1/day"
                     [] OTHER -> "1/" \o q.num \o "days")

\* extract_constraints has returned for a description that says every 14
\* days and every other number of days
EveryFortnightAndEveryNDays ==
    /\ constraints # NotCalled
    /\ \E q \in EveryNDays(Lower(OrEmpty(args.description))) : q.num = "14"
    /\ \E q \in EveryNDays(Lower(OrEmpty(args.description))) :
          q.num \notin {"1", "7", "14"}
    /\ Len(constraints) = 2

\* the words that open a cooldown, and the units with their constraint type
CooldownWords == {"not within ", "preceding ", "within ", "after "}

CooldownUnits ==
    {[unit |-> "day", type |-> "cooldown_days"],
     [unit |-> "week", type |-> "cooldown_weeks"],
     [unit |-> "month", type |-> "cooldown_months"],
     [unit |-> "year", type |-> "cooldown_years"]}

\* the cooldown phrases '<word> N <unit>' and '<word> N <unit>s' of the
\* lower-cased text: the position, the number and the type of each
Cooldowns(low) ==
    LET Of(w, u, form) ==
            {[at |-> q.at, num |-> q.num, type |-> u.type, unit |-> form] :
                q \in Quantities(low, w, " " \o form)}
    IN  UNION {Of(w, u, u.unit) \cup Of(w, u, u.unit \o "s") :
               w \in CooldownWords, u \in CooldownUnits}

\* the number of times the returned constraints hold (item, type, value)
TimesYielded(type, value) ==
    Cardinality({k \in 1..Len(constraints) :
                    constraints[k] = <<args.item_num, type, value>>})

\* C12: every 'not within', 'preceding', 'within' or 'after' followed by a
\* number N and a unit day, week, month or year, singular or plural, yields
\* (item, cooldown_<unit>s, N), the same for both forms of the unit, and the
\* constraint is returned exactly once, also when two patterns match the
\* occurrence.
CooldownNormalized ==
    constraints # NotCalled =>
        \A c \in Cooldowns(Lower(OrEmpty(args.description))) :
            TimesYielded(c.type, c.num) = 1

\* extract_constraints has returned for a description with 'not within 12
\* months', which COOLDOWN_GENERIC and WITHIN_X_PERIOD both match, and with
\* a cooldown whose unit is singular
CooldownMatchedTwiceAndSingular ==
    /\ constraints # NotCalled
    /\ LET cs == Cooldowns(Lower(OrEmpty(args.description)))
       IN  /\ \E c \in cs : LitAt(Lower(args.description), c.at, "not within ")
           /\ \E c \in cs : c.unit \in {"day", "week", "month", "year"}
    /\ Len(constraints) = 2

(***************************************************************************)
(* Referral phrases as the text shows them.                                *)
(***************************************************************************)
\* the words stand in the lower-cased text between word boundaries
Says(low, words) ==
    \E i \in 1..Len(low) :
        /\ LitAt(low, i, words)
        /\ WordBoundary(low, i)
        /\ WordBoundary(low, i + Len(words))

\* the words stand somewhere in the lower-cased text
Holds(low, words) == \E i \in 1..Len(low) : LitAt(low, i, words)

SpecialistReferralPhrases ==
    {"referral required from specialist", "specialist referral",
     "referral to specialist"}

GpReferralPhrases ==
    {"gp referral", "referral from gp", "general practitioner referral",
     "must be referred from gp"}

GenericReferralPhrases ==
    {"following referral", "valid referral", "referral", "referral required",
     "requires referral", "must be referred"}

\* C13: a specialist-referral phrase yields requires_referral 'specialist', a
\* GP-referral phrase 'gp', a generic or referral-required phrase 'true';
\* each is yielded whatever other referral phrases the description has, so
\* 'requires specialist referral, must be referred from gp' yields all three;
\* and none of the three values is returned without a phrase of its kind.
ReferralKindsIndependent ==
    constraints # NotCalled =>
        LET low == Lower(OrEmpty(args.description))
            specialist == \E w \in SpecialistReferralPhrases : Says(low, w)
            gp == \E w \in GpReferralPhrases : Says(low, w)
            generic == \E w \in GenericReferralPhrases : Says(low, w)
        IN  /\ specialist => Yields("requires_referral", "specialist")
            /\ gp => Yields("requires_referral", "gp")
            /\ generic => Yields("requires_referral", "true")
            /\ Says(low, "requires specialist referral, must be referred from gp")
                  => /\ Yields("requires_referral", "specialist")
                     /\ Yields("requires_referral", "gp")
                     /\ Yields("requires_referral", "true")
            /\ Yields("requires_referral", "specialist")
                  => \E w \in SpecialistReferralPhrases : Holds(low, w)
            /\ Yields("requires_referral", "gp")
                  => \E w \in GpReferralPhrases : Holds(low, w)
            /\ Yields("requires_referral", "true")
                  => \E w \in GenericReferralPhrases : Holds(low, w)
            /\ \A c \in Elements(constraints) :
                  c[2] = "requires_referral"
                      => c[3] \in {"specialist", "gp", "true"}

\* extract_constraints has returned the three referral values for
\* 'requires specialist referral, must be referred from gp'
ThreeReferralKindsReturned ==
    /\ constraints # NotCalled
    /\ Says(Lower(OrEmpty(args.description)),
            "requires specialist referral, must be referred from gp")
    /\ Cardinality({c \in Elements(constraints) : c[2] = "requires_referral"}) = 3

(***************************************************************************)
(* Lettered clauses as the text shows them.                                *)
(***************************************************************************)
RECURSIVE TrimLeft(_)
TrimLeft(s) ==
    IF s # "" /\ IsSpace(Ch(s, 1)) THEN TrimLeft(SubSeq(s, 2, Len(s))) ELSE s

RECURSIVE TrimRight(_)
TrimRight(s) ==
    IF s # "" /\ IsSpace(Ch(s, Len(s)))
    THEN TrimRight(SubSeq(s, 1, Len(s) - 1)) ELSE s

\* the text without the whitespace at its ends
Trimmed(s) == TrimRight(TrimLeft(s))

\* a bracketed single letter '(x)' stands at position i
LetterAt(text, i) ==
    /\ Ch(text, i) = "("
    /\ LowerChar(Ch(text, i + 1)) \in LowerLetters
    /\ Ch(text, i + 2) = ")"

RECURSIVE NextTerminator(_, _)
\* the position of the first semicolon or newline at or after j, 0 if none
NextTerminator(text, j) ==
    IF j > Len(text) THEN 0
    ELSE IF Ch(text, j) \in {";", "\n"} THEN j
    ELSE NextTerminator(text, j + 1)

\* the example '(a) taking a history; (b) examining the patient;' and the
\* constraints it is to yield
IsExample(description) ==
    description = "(a) taking a history; (b) examining the patient;"

ExampleClauses ==
    << <<args.item_num, "requirement", "(a) taking a history">>,
       <<args.item_num, "requirement", "(b) examining the patient">> >>

\* C14 as stated: every segment '(x) text', x a single letter, that a
\* semicolon or newline ends yields exactly one requirement whose value is
\* the segment verbatim, trimmed, running up to the next semicolon or
\* newline; the example yields exactly its two clauses in order.
ClausesVerbatim ==
    constraints # NotCalled =>
        LET text == OrEmpty(args.description)
        IN  /\ \A i \in 1..Len(text) :
                  (LetterAt(text, i) /\ NextTerminator(text, i + 3) # 0)
                  => TimesYielded("requirement",
                                  Trimmed(SubSeq(text, i,
                                          NextTerminator(text, i + 3) - 1))) = 1
            /\ IsExample(args.description) => constraints = ExampleClauses

\* a clause begins at i: '(x)', whitespace if any, then a text of at least
\* one character that a semicolon or newline ends
ClauseBegins(text, i) ==
    /\ LetterAt(text, i)
    /\ NextTerminator(text, SkipSpaces(text, i + 3)) > SkipSpaces(text, i + 3)

\* the value of the clause that begins at i: the letter in lower case, one
\* space, the text trimmed
ClauseValueAt(text, i) ==
    "(" \o LowerChar(Ch(text, i + 1)) \o ") "
        \o Trimmed(SubSeq(text, SkipSpaces(text, i + 3),
                           NextTerminator(text, SkipSpaces(text, i + 3)) - 1))

RECURSIVE ClausesFrom(_, _)
\* the values of the clauses from position i on, read left to right, a
\* clause ending with its semicolon or newline
ClausesFrom(text, i) ==
    IF i > Len(text) THEN <<>>
    ELSE IF ClauseBegins(text, i)
    THEN <<ClauseValueAt(text, i)>>
            \o ClausesFrom(text, NextTerminator(text, SkipSpaces(text, i + 3)) + 1)
    ELSE ClausesFrom(text, i + 1)

\* C14 (amended): the clauses are read left to right: '(x)', x a letter in
\* either case, whitespace if any, then the text up to the next semicolon or
\* newline, which must be there; the next clause is looked for after that
\* semicolon or newline.  Every clause yields the requirement '(x) text' with
\* x in lower case, one space and the text trimmed; the requirements stand in
\* the order of the clauses, equal values once, and no other requirement
\* begins with a bracket; the example yields exactly its two clauses.
ClausesNormalized ==
    constraints # NotCalled =>
        /\ SelectSeq(constraints,
                     LAMBDA c : c[2] = "requirement" /\ Ch(c[3], 1) = "(")
              = [n \in 1..Len(Dedup(ClausesFrom(OrEmpty(args.description), 1))) |->
                    <<args.item_num, "requirement",
                      Dedup(ClausesFrom(OrEmpty(args.description), 1))[n]>>]
        /\ IsExample(args.description) => constraints = ExampleClauses

\* C14 witness: extract_constraints has returned the requirements of a
\* description of two clauses, one with its letter in upper case and one with
\* a bracketed letter inside its text: the first with the letter in lower
\* case, the second as one clause.
ClausesReturnedNormalized ==
    /\ constraints # NotCalled
    /\ Yields("requirement", "(c) Arranging tests")
    /\ Yields("requirement", "(e) x (f) y")
    /\ ~Yields("requirement", "(f) y")

(***************************************************************************)
(* The words of the vocabularies as the text shows them.                   *)
(***************************************************************************)
\* the vocabularies, each with the type of its constraints
Vocabularies ==
    {[words |-> Elements(library.LOCATIONS), type |-> "location"],
     [words |-> Elements(library.PROVIDERS), type |-> "provider"]}

\* the words of a vocabulary that stand in the lower-cased text as whole
\* words or phrases
Said(low, words) == {w \in words : Says(low, w)}

\* C15: every entry of the location and of the provider vocabulary that
\* stands in the description as a whole word or phrase, in any letter case,
\* yields exactly one constraint (item, 'location' or 'provider', entry) with
\* the vocabulary string as value; an entry that stands only inside a longer
\* word, or not at all, yields none; so the number of location constraints
\* is the number of location entries that occur.
VocabularyWholeWords ==
    constraints # NotCalled =>
        LET low == Lower(OrEmpty(args.description))
        IN  \A V \in Vocabularies :
              /\ \A w \in V.words :
                    TimesYielded(V.type, w) = (IF Says(low, w) THEN 1 ELSE 0)
              /\ Cardinality({k \in 1..Len(constraints) :
                                 constraints[k][2] = V.type})
                    = Cardinality(Said(low, V.words))

\* extract_constraints has returned for a description that has one location
\* in upper case, another location only inside a longer word, and returned
\* a location for the first only
WholeWordAndPartOfWord ==
    /\ constraints # NotCalled
    /\ LET low == Lower(OrEmpty(args.description))
           locations == Elements(library.LOCATIONS)
       IN  /\ \E w \in Said(low, locations) : ~Holds(args.description, w)
           /\ \E w \in locations \ Said(low, locations) : Holds(low, w)
           /\ Cardinality({c \in Elements(constraints) : c[2] = "location"}) = 1

(***************************************************************************)
(* The derived fee text.                                                   *)
(***************************************************************************)
\* the numbers of the mentions 'item N' of a text, N of one to five digits
SingleMentions(text) ==
    {q.num : q \in {p \in Quantities(Lower(OrEmpty(text)), "item ", "") :
                       Len(p.num) <= MaxItemDigits}}

\* C16: the relations of type derived_fee_ref are (source, derived_fee_ref,
\* N, 'derived fee') for exactly the mentions 'item N' of the derived fee
\* with N other than the source, whatever the description mentions; and the
\* relations of every other type are those the description yields without
\* a derived fee, so the derived fee adds no relation of another type.
DerivedFeeScannedApart ==
    relations # NotCalled =>
        /\ {r \in Elements(relations) : r[2] = "derived_fee_ref"}
              = {<<args.item_num, "derived_fee_ref", n, "derived fee">> :
                    n \in SingleMentions(args.derived_fee) \ {args.item_num}}
        /\ SelectSeq(relations, LAMBDA r : r[2] # "derived_fee_ref")
              = extract_relations_in(library, args.item_num, args.description,
                                     None)

\* extract_relations has returned for a description and a derived fee that
\* both mention items: a fee reference, and a relation of the description
\* to a number the derived fee does not mention
FeeAndDescriptionMentionItems ==
    /\ relations # NotCalled
    /\ SingleMentions(args.derived_fee) \ {args.item_num} # {}
    /\ \E n \in SingleMentions(args.description) :
          /\ n \notin SingleMentions(args.derived_fee)
          /\ n # args.item_num
    /\ \E r \in Elements(relations) : r[2] = "derived_fee_ref"
    /\ \E r \in Elements(relations) : r[2] = "excludes"

(***************************************************************************)
(* Values that are no strings.                                             *)
(***************************************************************************)
\* C19 as stated: a description or derived fee of None is taken for the
\* empty string and alone yields no facts; every other value that is no
\* string, passed as description or as derived fee, makes the call fail with
\* an error.
NonStringsRejected ==
    /\ relations # NotCalled =>
          /\ (args.description = None /\ args.derived_fee = None)
                => relations = <<>>
          /\ (args.description \in NonStrings \ {None}
                 \/ args.derived_fee \in NonStrings \ {None})
                => relations = TypeError
    /\ constraints # NotCalled =>
          /\ args.description = None => constraints = <<>>
          /\ args.description \in NonStrings \ {None}
                => constraints = TypeError

(***************************************************************************)
(* Properties of the loader.                                               *)
(***************************************************************************)
\* the positions of the log that hold a call of op
Positions(op) == {p \in DOMAIN log : log[p].op = op}

RECURSIVE Returned(_, _, _)
\* what the calls of op at the positions q..p-1 of the log returned, joined
Returned(op, p, q) ==
    IF q >= p THEN <<>>
    ELSE (IF log[q].op = op THEN log[q].rows ELSE <<>>)
             \o Returned(op, p, q + 1)

RECURSIVE Facts(_, _, _)
\* the rows of one kind among the results of the first n items
Facts(results, field, n) ==
    IF n = 0 THEN <<>>
    ELSE Facts(results, field, n - 1) \o results[n][field]

\* the coverage statistics of the run are computed: the run is past line 192
Aggregated ==
    \/ pc \in {"report", "insert_meta", "summary", "done"}
    \/ pc = "failed" /\ main.failed_at \in {"insert_meta", "summary"}

DiagnosticsOfNoItemsAreZero ==
    (Aggregated /\ main.items = <<>>)
    => /\ main.analysis.total_items = 0
       /\ main.analysis.coverage.relations_coverage = 0
       /\ main.analysis.coverage.constraints_coverage = 0
       /\ main.analysis.coverage.both_coverage = 0
       /\ main.analysis.description_stats.avg_length = 0
       /\ main.analysis.description_stats.min_length = 0
       /\ main.analysis.description_stats.max_length = 0

\* C17 (as stated): no load run fails in the coverage computation or in the
\* reporting that follows it, whatever the item records are, and the
\* diagnostics of a run over zero items are all 0.
DiagnosticsNeverFail ==
    /\ ~(pc = "failed" /\ main.failed_at \in {"analyze", "report", "summary"})
    /\ DiagnosticsOfNoItemsAreZero

\* the insert of the batch of one extractor is called after both extractors
\* were called on every item, with the per-item results of the extractor
\* joined in item order
BatchAfterScan(insert, extractor, field, results) ==
    \A p \in Positions(insert) :
       /\ \A k \in 1..Len(main.items) :
             \A op \in {"extract_relations", "extract_constraints"} :
                \E q \in 1..(p - 1) : log[q].op = op /\ log[q].item = k
       /\ \A q1, q2 \in 1..(p - 1) :
             (q1 < q2 /\ log[q1].op = extractor /\ log[q2].op = extractor)
             => log[q1].item < log[q2].item
       /\ \A q \in 1..(p - 1) :
             log[q].op = extractor
             => log[q].rows = results[log[q].item][field]
       /\ log[p].rows = Returned(extractor, p, 1)

\* both batches in their order
FlatBatchesAfterScan ==
    \A results \in {ResultsOf(main.items)} :
       /\ BatchAfterScan("insert_relations", "extract_relations",
                         "relations", results)
       /\ BatchAfterScan("insert_constraints", "extract_constraints",
                         "constraints", results)

\* C18 (as stated): in every load run the relations and the constraints are
\* inserted as two batches, one insert_relations call and one
\* insert_constraints call per run, neither before both extractors were
\* called on every parsed item, and each batch is the per-item extractor
\* results joined in item order.
TwoFlatBatchesAfterScan ==
    /\ \A insert \in {"insert_relations", "insert_constraints"} :
          /\ Cardinality(Positions(insert)) <= 1
          /\ pc \in {"done", "failed"} => Cardinality(Positions(insert)) = 1
    /\ FlatBatchesAfterScan

\* no call of the run raised up to the return of insert_constraints: the run
\* is past line 187
PastInserts ==
    \/ pc \in {"analyze", "report", "insert_meta", "summary", "done"}
    \/ pc = "failed" /\ main.failed_at \in {"insert_meta", "summary"}

\* C18: in every load run the relations and the constraints are inserted as
\* flat batches, at most one insert_relations call and at most one
\* insert_constraints call, exactly one of each in a run in which no call
\* raised up to the return of insert_constraints, and insert_constraints
\* only after insert_relations; neither is called before both extractors
\* were called on every parsed item, and each batch is the per-item
\* extractor results joined in item order.
TwoFlatBatchesUnlessRaised ==
    /\ \A insert \in {"insert_relations", "insert_constraints"} :
          /\ Cardinality(Positions(insert)) <= 1
          /\ PastInserts => Cardinality(Positions(insert)) = 1
    /\ \A p \in Positions("insert_constraints") :
          \E q \in Positions("insert_relations") : q < p
    /\ FlatBatchesAfterScan

\* C18 witness: a run over two items that both have relations has inserted
\* a batch of relations and a batch of constraints and goes on to the
\* analysis.
BatchesOfTwoItemsInserted ==
    /\ pc = "analyze"
    /\ Len(main.items) = 2
    /\ \E p \in Positions("insert_relations") :
          \E r1, r2 \in 1..Len(log[p].rows) :
             /\ log[p].rows[r1][1] = main.items[1].item_num
             /\ log[p].rows[r2][1] = main.items[2].item_num
             /\ main.items[1].item_num # main.items[2].item_num
    /\ \E p \in Positions("insert_constraints") : log[p].rows # <<>>

\* the items table holds one row for each item number of the items, the row
\* of the last item with that number
ItemsOfRun(table, items) ==
    /\ \A r \in 1..Len(table) :
          \E k \in 1..Len(items) :
             /\ table[r] = <<items[k].item_num, items[k].description,
                             items[k].derived_fee>>
             /\ \A later \in (k + 1)..Len(items) :
                   items[later].item_num # items[k].item_num
    /\ \A k \in 1..Len(items) :
          \E r \in 1..Len(table) : table[r][1] = items[k].item_num
    /\ \A r1, r2 \in 1..Len(table) :
          table[r1][1] = table[r2][1] => r1 = r2

\* C20: after a completed load run, whatever runs came before it, the store
\* holds exactly the relations and the constraints extracted from the items
\* of that run and only items of that run.
ReloadReplacesAllFacts ==
    pc = "done"
    => \A results \in {ResultsOf(main.items)} :
          /\ store.relations = Facts(results, "relations", Len(results))
          /\ store.constraints = Facts(results, "constraints", Len(results))
          /\ ItemsOfRun(store.items, main.items)

\* C20 witness: a second run is over whose reset dropped the items, the
\* relations and the constraints of an earlier run, and it stored relations.
SecondRunReplacedFirst ==
    /\ pc = "done"
    /\ main.run_no = 2
    /\ \E p \in Positions("reset_db") :
          log[p].rows = <<"constraints", "relations", "items">>
    /\ store.relations # <<>>
    /\ Len(store.items) = 1

(***************************************************************************)
(* Properties of the API.                                                  *)
(***************************************************************************)
\* the item numbers of the items table, none when the table does not exist
Existing(tables) ==
    IF tables.items = None THEN {}
    ELSE {tables.items[r][1] : r \in 1..Len(tables.items)}

RECURSIVE Requested(_, _, _)
\* the codes a parameter asks for: its comma-separated pieces from position
\* a on, trimmed, the empty ones left out
Requested(codes, a, b) ==
    IF a > Len(codes) + 1 THEN <<>>
    ELSE IF b <= Len(codes) /\ SubSeq(codes, b, b) # ","
         THEN Requested(codes, a, b + 1)
         ELSE (IF Trimmed(Piece(codes, a, b - 1)) = "" THEN <<>>
               ELSE <<Trimmed(Piece(codes, a, b - 1))>>)
                  \o Requested(codes, b + 1, b + 1)

\* the members of a list that are in a set, in the order of the list
Among(list, set) ==
    LET RECURSIVE From(_)
        From(k) == IF k > Len(list) THEN <<>>
                   ELSE (IF list[k] \in set THEN <<list[k]>> ELSE <<>>)
                            \o From(k + 1)
    IN  From(1)

\* C21 (as stated): a request with a non-empty codes parameter is answered
\* 200 with 'requested' the requested codes in request order, 'found' the
\* requested codes that exist and 'items' one aggregate per existing code,
\* also when no requested code exists; an empty parameter is answered 400.
ItemsAnswered ==
    api.codes # None
    => IF api.codes = "" THEN api.status = 400
       ELSE /\ api.status = 200
            /\ {"requested", "found", "items"} \subseteq DOMAIN api.body
            /\ api.body.requested = Requested(api.codes, 1, 1)
            /\ api.body.found
                   = Among(Requested(api.codes, 1, 1), Existing(store))
            /\ Len(api.body.items) = Len(api.body.found)
            /\ \A k \in 1..Len(api.body.items) :
                  api.body.items[k].item.item_num = api.body.found[k]

(***************************************************************************)
(* Properties of the fallback rules and of the windows.                    *)
(***************************************************************************)
\* the phrases of the four windowed rules
SpecificPhrases ==
    {EXCLUDE_PHRASES[k] : k \in 1..Len(EXCLUDE_PHRASES)}
        \cup {SAME_DAY_EXCLUDE_PHRASES[k] :
                 k \in 1..Len(SAME_DAY_EXCLUDE_PHRASES)}
        \cup {ALLOW_SAME_DAY_PHRASES[k] : k \in 1..Len(ALLOW_SAME_DAY_PHRASES)}
        \cup {PREREQ_PHRASES[k] : k \in 1..Len(PREREQ_PHRASES)}

\* the windows of the matched phrases of a prepared text: first and last
\* position (1-based) of the characters within WINDOW of a match's start
Windows(t) ==
    UNION {{[lo |-> Max(0, PhraseStarts(t, phrase)[n] - WINDOW) + 1,
             hi |-> Min(Len(t.text), PhraseStarts(t, phrase)[n] + WINDOW)] :
               n \in 1..Len(PhraseStarts(t, phrase))} :
             phrase \in SpecificPhrases}

\* the digit runs of the text between the positions from and to
RunsBetween(low, from, to) ==
    {[at |-> p,
      len |-> CHOOSE n \in 1..(to - p + 1) :
                 /\ \A j \in 0..(n - 1) : IsDigit(Ch(low, p + j))
                 /\ (p + n > to \/ ~IsDigit(Ch(low, p + n)))] :
        p \in {q \in from..to :
                  IsDigit(Ch(low, q)) /\ (q = from \/ ~IsDigit(Ch(low, q - 1)))}}

\* the item numbers that the matches of one of the two item patterns
\* mention in a prepared text, each with its place
MentionedBy(Pattern(_, _), t) ==
    LET starts == {i \in PositionsOf(t, "i") : Pattern(t.low, i).next > 0}
        After(p) == Pattern(t.low, p).next
        found == Scan(starts, After, 1)
    IN  UNION {RunsBetween(t.low, Pattern(t.low, found[n]).from,
                           Pattern(t.low, found[n]).to) :
                 n \in 1..Len(found)}

\* a mention lies in the window of a matched phrase
Captured(t, run) ==
    \E w \in Windows(t) : w.lo <= run.at /\ run.at + run.len - 1 <= w.hi

\* a mention of the number outside every window
MentionedApart(runs, t, number) ==
    \E run \in runs :
       /\ SubSeq(t.text, run.at, run.at + run.len - 1) = number
       /\ ~Captured(t, run)

\* C22 (as stated): every 'items list' and every 'single item mention'
\* relation returned goes back to a mention of its target that lies in the
\* window of no matched exclusion, same-day or prerequisite phrase.
FallbackOnlyForUncaptured ==
    (relations # NotCalled /\ relations # TypeError) =>
        \A t \in {Prepared(OrEmpty(args.description))} :
           \A k \in 1..Len(relations) :
              /\ relations[k][4] = "items list"
                    => MentionedApart(MentionedBy(ITEM_LIST_PATTERN, t), t,
                                      relations[k][3])
              /\ relations[k][4] = "single item mention"
                    => MentionedApart(MentionedBy(SINGLE_ITEM_PATTERN, t), t,
                                      relations[k][3])

(***************************************************************************)
(* Properties of the repeated phrases, of the pipeline and of the targets  *)
(***************************************************************************)
\* the ranges written with 'to' or a hyphen before 'minutes'
WrittenRanges(low) ==
    {r \in Ranges(low) :
        \E sep \in {" to ", "-"} :
           /\ LitAt(low, r.at + Len(r.min), sep)
           /\ LitAt(low, r.at + Len(r.min) + Len(sep) + Len(r.max),
                    " minutes")}

\* C23 (as stated): every match of a value-capturing duration pattern, not
\* the first alone, yields its constraint: each 'at least N minutes' yields
\* (item, duration_min_minutes, N), each 'less than / up to / no more than N
\* minutes' yields (item, duration_max_minutes, N) and each range 'A to B
\* minutes' or 'A-B minutes' yields both its minimum A and its maximum B.
EveryMatchYieldsConstraint ==
    (constraints # NotCalled /\ constraints # TypeError) =>
        \A low \in {Lower(OrEmpty(args.description))} :
           /\ \A q \in AtLeastMinutes(low) :
                 Yields("duration_min_minutes", q.num)
           /\ \A q \in QualifiedUpperBounds(low) :
                 Yields("duration_max_minutes", q.num)
           /\ \A r \in WrittenRanges(low) :
                 /\ Yields("duration_min_minutes", r.min)
                 /\ Yields("duration_max_minutes", r.max)

\* the phrases 'every N <unit>s' and 'every N <unit>' of the lower-cased text
EveryN(low, unit) ==
    Quantities(low, "every ", " " \o unit \o "s")
        \cup Quantities(low, "every ", " " \o unit)

\* C24 (as stated): 'every N weeks', 'every N months' and 'every N years'
\* with N > 1 yield the max_per_window value '1/N<unit>s', which holds N, so
\* that two window lengths never yield the same value.
EveryKeepsWindowLength ==
    (constraints # NotCalled /\ constraints # TypeError) =>
        \A low \in {Lower(OrEmpty(args.description))} :
           \A unit \in {"week", "month", "year"} :
              \A q \in EveryN(low, unit) :
                 IntOf(q.num, Len(q.num)) > 1
                 => Yields("max_per_window",
                           "1/" \o q.num \o unit \o "s")

\* a batch of the run was handed to the store
HandedOff ==
    Positions("insert_relations") \cup Positions("insert_constraints") # {}

\* C25 (as stated): a run goes from scanning to aggregated to handed off:
\* no batch is handed to the store before the coverage statistics of the run
\* are computed.
AggregatedBeforeHandOff == HandedOff => Aggregated

\* C26: a run in which a write to the database raised has failed, and the
\* call that raised is the last call the run made.  When it was
\* insert_relations, the run called insert_constraints and insert_meta never
\* and insert_relations once, and the store holds the items of the run, no
\* relation and no constraint; when it was insert_constraints, the run called
\* insert_meta never and each insert once, and the store holds the items and
\* the relations of the run and no constraint.
PersistenceErrorFatal ==
    /\ main.error = DatabaseError
       => /\ pc = "failed"
          /\ log # <<>>
          /\ log[Len(log)].op = main.failed_at
    /\ (main.error = DatabaseError /\ main.failed_at = "insert_relations")
       => /\ Positions("insert_constraints") = {}
          /\ Positions("insert_meta") = {}
          /\ Cardinality(Positions("insert_relations")) = 1
          /\ ItemsOfRun(store.items, main.items)
          /\ store.relations = <<>>
          /\ store.constraints = <<>>
    /\ (main.error = DatabaseError /\ main.failed_at = "insert_constraints")
       => /\ Positions("insert_meta") = {}
          /\ Cardinality(Positions("insert_relations")) = 1
          /\ Cardinality(Positions("insert_constraints")) = 1
          /\ ItemsOfRun(store.items, main.items)
          /\ store.relations = main.rel_rows
          /\ store.constraints = <<>>

\* C26 witness: insert_relations raised in a second run whose batches both
\* hold rows, after a first run that had stored its facts.
RelationsInsertFailed ==
    /\ pc = "failed"
    /\ main.error = DatabaseError
    /\ main.failed_at = "insert_relations"
    /\ main.run_no = 2
    /\ Positions("insert_constraints") = {}
    /\ main.rel_rows # <<>>
    /\ main.con_rows # <<>>
    /\ \E p \in Positions("reset_db") :
          log[p].rows = <<"constraints", "relations", "items">>

\* the relations returned that a phrase of a windowed list stands behind
WindowedReturned ==
    {r \in Elements(relations) :
        \E L \in WindowedLists : \E k \in 1..Len(L.phrases) :
           r[2] = L.type /\ r[4] = L.phrases[k].pattern}

\* C27 (as stated): the target of every relation of a windowed phrase rule is
\* a complete item-number token of the description, a run of 1 to 5 digits
\* between word boundaries of the full text, never a piece of a longer run
\* that the edge of the window cut.
WindowedTargetsAreTokens ==
    (relations # NotCalled /\ relations # TypeError) =>
        \A t \in {Prepared(OrEmpty(args.description))} :
           \A r \in WindowedReturned :
              \E tok \in Tokens(t) : tok.num = r[3]

\* C28 (as stated): no call returns both a same_day_excludes relation and an
\* allows_same_day relation to one target, also when a same-day exclusion of
\* one item and a same-day allowance of another stand within 120 characters.
NoContradictorySameDayFacts ==
    (relations # NotCalled /\ relations # TypeError) =>
        \A r1, r2 \in Elements(relations) :
           (r1[2] = "same_day_excludes" /\ r2[2] = "allows_same_day")
           => r1[3] # r2[3]

\* C29 (as stated): the target of every relation drawn from the description
\* is a number that a mention 'item N' or 'items N, M or P' of the
\* description introduces; no other number near a phrase becomes a target.
TargetsAreMentionedItems ==
    (relations # NotCalled /\ relations # TypeError) =>
        \A t \in {Prepared(OrEmpty(args.description))} :
           \A runs \in {MentionedBy(ITEM_LIST_PATTERN, t)
                            \cup MentionedBy(SINGLE_ITEM_PATTERN, t)} :
              \A k \in 1..Len(relations) :
                 (relations[k][4] # "derived fee"
                     /\ relations[k][2] # "generic_excludes")
                 => \E run \in runs :
                       SubSeq(t.text, run.at, run.at + run.len - 1)
                           = relations[k][3]

\* no row stands twice in the rows
NoTwoAlike(rows) ==
    \A i, j \in 1..Len(rows) : rows[i] = rows[j] => i = j

\* C30 (as stated): the batch of relations and the batch of constraints that
\* a run hands to the store hold no tuple twice, and after the run the store
\* holds no relation and no constraint twice, whatever the dataset, also
\* when two of its records carry one item_num.
NoFactTwice ==
    /\ \A p \in Positions("insert_relations")
                   \cup Positions("insert_constraints") :
          NoTwoAlike(log[p].rows)
    /\ pc = "done"
       => /\ NoTwoAlike(store.relations)
          /\ NoTwoAlike(store.constraints)

====
